---- MODULE Spec2Model ----
(***************************************************************************)
(* Payment reconciliation of FlatOS (web-service/src/lib/calculations.ts):  *)
(* the due-date resolver, the weekly-amount resolver and the per-flatmate   *)
(* balance calculator.                                                      *)
(*                                                                          *)
(* A Date is modelled as a whole number of days since 1970-01-01 (local     *)
(* midnight instants); getDay, addDays, startOfWeek and the comparisons of  *)
(* the code are computed on that number.                                    *)
(***************************************************************************)
EXTENDS Integers, Sequences, FiniteSets, TLC

VARIABLES
    clock,                  \* the wall clock, read by `new Date()`
    paymentSchedules,       \* the schedule store: the rows in stored order
    transactions,           \* the transaction store: the rows in stored order
    pc,                     \* position of the running calculation
    userId,                 \* calculateFlatmateBalance's arguments
    startDate,
    endDate,
    schedules,              \* locals of calculateFlatmateBalance
    userTransactions,
    weeks,
    idx,
    weeklyBreakdown,
    totalDue,
    assignedTransactionIds,
    visited,                \* history: the `now` read for each week of the loop
    result,                 \* the FlatmateBalance returned
    probe,                  \* a direct call of one of the pure helpers
    users,                  \* the user store: the rows in stored order
    systemState,            \* the settings store: the rows in stored order
    call,                   \* the frame of calculateAllBalances / calculateUserBalance
    frames,                 \* the calculateFlatmateBalance frames that call dispatched
    expenseCategories,      \* the expense category store: the rows in stored order
    expenseTransactions,    \* the store that files transactions under categories
    script                  \* the run of scripts/migrate.mjs and its database

vars == <<clock, paymentSchedules, transactions, pc, userId, startDate, endDate,
          schedules, userTransactions, weeks, idx, weeklyBreakdown, totalDue,
          assignedTransactionIds, visited, result, probe,
          users, systemState, call, frames,
          expenseCategories, expenseTransactions, script>>

aggVars == <<users, systemState, call, frames>>

restVars == <<expenseCategories, expenseTransactions, script>>

calcVars == <<clock, paymentSchedules, transactions, pc, userId, startDate, endDate,
              schedules, userTransactions, weeks, idx, weeklyBreakdown, totalDue,
              assignedTransactionIds, visited, result>>

\* `null`: no Date, no number
Null == -1

-----------------------------------------------------------------------------
(* Dates                                                                    *)

\* new Date(year, monthIndex, day): the day number of a civil date; monthIndex
\* is 0-based as in JavaScript.
NewDate(year, monthIndex, day) ==
    LET m   == monthIndex + 1
        y   == IF m <= 2 THEN year - 1 ELSE year
        era == y \div 400
        yoe == y - era * 400
        mp  == IF m > 2 THEN m - 3 ELSE m + 9
        doy == (153 * mp + 2) \div 5 + day - 1
        doe == yoe * 365 + yoe \div 4 - yoe \div 100 + doy
    IN  era * 146097 + doe - 719468

\* Date.prototype.getDay(): 0 = Sunday .. 6 = Saturday (1970-01-01 was a Thursday).
getDay(date) == (date + 4) % 7

addDays(date, amount) == date + amount

\* date-fns nextDay(date, 4)
nextThursday(date) ==
    LET delta == 4 - getDay(date)
    IN  addDays(date, IF delta <= 0 THEN delta + 7 ELSE delta)

\* startOfWeek without its option: the week starts on Sunday, the date-fns default.
startOfWeekSunday(date, weekStartsOn) ==
    date - getDay(date)

\* date-fns startOfWeek(date, { weekStartsOn })
startOfWeek(date, weekStartsOn) ==
    LET day  == getDay(date)
        diff == (IF day < weekStartsOn THEN 7 ELSE 0) + day - weekStartsOn
    IN  date - diff

\* date-fns endOfWeek(date, { weekStartsOn }): the last day of the week
endOfWeek(date, weekStartsOn) ==
    LET day  == getDay(date)
        diff == (IF day < weekStartsOn THEN -7 ELSE 0) + 6 - (day - weekStartsOn)
    IN  date + diff

\* isAfter with `>=`: a date is taken to be after itself.
isAfterOrEqual(date, dateToCompare) == date >= dateToCompare

isAfter(date, dateToCompare) == date > dateToCompare

\* The week starts from first to last, 7 days apart, in increasing order.
RECURSIVE WeekRange(_, _)
WeekRange(first, last) ==
    IF first > last THEN <<>> ELSE <<first>> \o WeekRange(first + 7, last)

Reverse(s) == [i \in 1..Len(s) |-> s[Len(s) + 1 - i]]

\* eachWeekOfInterval with the weeks in decreasing order.
eachWeekOfIntervalDescending(start, end, weekStartsOn) ==
    Reverse(WeekRange(startOfWeek(start, weekStartsOn), startOfWeek(end, weekStartsOn)))

\* date-fns eachWeekOfInterval({ start, end }, { weekStartsOn }) for start <= end
eachWeekOfInterval(start, end, weekStartsOn) ==
    WeekRange(startOfWeek(start, weekStartsOn), startOfWeek(end, weekStartsOn))

-----------------------------------------------------------------------------
(* The due-date resolver                                                    *)

\* getDueThursday with `day < 4`: Thursday itself is sent to the next week.
getDueThursdayStrict(date) ==
    LET day == getDay(date)
    IN  IF day < 4
        THEN date + (4 - day)
        ELSE nextThursday(date)

\* getDueThursday with "a week later" in place of nextThursday.
getDueThursdayWeekLater(date) ==
    LET day == getDay(date)
    IN  IF day <= 4
        THEN date + (4 - day)
        ELSE addDays(date, 7)

getDueThursday(date) ==
    LET day == getDay(date)
    IN  IF day <= 4
        THEN date + (4 - day)
        ELSE nextThursday(date)

-----------------------------------------------------------------------------
(* The weekly-amount resolver                                               *)

\* s.endDate ?? new Date(2100, 0, 1)
scheduleEnd(s) == IF s.endDate = Null THEN NewDate(2100, 0, 1) ELSE s.endDate

\* the filter callback with `scheduleEnd > weekStart`: the end date excluded.
appliesEndExclusive(s, weekStart) ==
    s.startDate <= weekStart /\ scheduleEnd(s) > weekStart

\* the filter callback with the start compared with the week's due date
appliesByDueDate(s, weekStart) ==
    s.startDate <= getDueThursday(weekStart) /\ scheduleEnd(s) >= weekStart

\* the filter callback of getWeeklyAmount
applies(s, weekStart) == s.startDate <= weekStart /\ scheduleEnd(s) >= weekStart

applicableSchedules(scheds, weekStart) ==
    SelectSeq(scheds, LAMBDA s : applies(s, weekStart))

\* Array.prototype.sort with (a, b) => b.startDate - a.startDate: a stable sort,
\* latest startDate first.
RECURSIVE InsertByStartDesc(_, _)
InsertByStartDesc(s, sorted) ==
    IF sorted = <<>> THEN <<s>>
    ELSE IF s.startDate > Head(sorted).startDate
         THEN <<s>> \o sorted
         ELSE <<Head(sorted)>> \o InsertByStartDesc(s, Tail(sorted))

\* the sort with (a, b) => a.startDate - b.startDate: earliest startDate first.
RECURSIVE InsertByStartAsc(_, _)
InsertByStartAsc(s, sorted) ==
    IF sorted = <<>> THEN <<s>>
    ELSE IF s.startDate < Head(sorted).startDate
         THEN <<s>> \o sorted
         ELSE <<Head(sorted)>> \o InsertByStartAsc(s, Tail(sorted))

RECURSIVE sortByStartAsc(_)
sortByStartAsc(scheds) ==
    IF scheds = <<>> THEN <<>>
    ELSE InsertByStartAsc(scheds[Len(scheds)],
                          sortByStartAsc(SubSeq(scheds, 1, Len(scheds) - 1)))

RECURSIVE sortByStartDesc(_)
sortByStartDesc(scheds) ==
    IF scheds = <<>> THEN <<>>
    ELSE InsertByStartDesc(scheds[Len(scheds)],
                           sortByStartDesc(SubSeq(scheds, 1, Len(scheds) - 1)))

getWeeklyAmount(scheds, weekStart) ==
    LET applicable == applicableSchedules(scheds, weekStart)
    IN  IF Len(applicable) = 0
        THEN 0
        ELSE sortByStartDesc(applicable)[1].weeklyAmount

-----------------------------------------------------------------------------
(* The stores and the queries of calculateFlatmateBalance                   *)

\* db.select().from(paymentSchedules).where(eq(paymentSchedules.userId, userId))
selectSchedules(store, uid) ==
    SelectSeq(store, LAMBDA s : s.userId = uid)

\* the where clause without eq(transactions.matchedUserId, userId)
qualifiesAnyUser(tx, uid, from, to) ==
    /\ tx.matchType = "rent_payment"
    /\ tx.date >= from
    /\ tx.date <= to
    /\ tx.amount > 0

\* utils.ts, isRentPayment: matchType === "rent_payment"
isRentPayment(matchType) == matchType = "rent_payment"

\* the where clause without sql`amount > 0`
qualifiesAnyAmount(tx, uid, from, to) ==
    /\ tx.matchedUserId = uid
    /\ tx.matchType = "rent_payment"
    /\ tx.date >= from
    /\ tx.date <= to

\* the where clause without eq(transactions.matchType, "rent_payment")
qualifiesAnyMatchType(tx, uid, from, to) ==
    /\ tx.matchedUserId = uid
    /\ tx.date >= from
    /\ tx.date <= to
    /\ tx.amount > 0

\* the where clause of the transaction query
qualifies(tx, uid, from, to) ==
    /\ tx.matchedUserId = uid
    /\ tx.matchType = "rent_payment"
    /\ tx.date >= from
    /\ tx.date <= to
    /\ tx.amount > 0

selectTransactions(store, uid, from, to) ==
    SelectSeq(store, LAMBDA tx : qualifies(tx, uid, from, to))

\* the filter callback without the check of assignedTransactionIds
countsTowardWeekUnchecked(tx, assigned, dueDate) ==
    LET windowStart == addDays(dueDate, -7)
        windowEnd   == addDays(dueDate, 3)
    IN  tx.date >= windowStart /\ tx.date <= windowEnd

\* the filter callback with a window of 7 days after the due date
countsTowardWeekLate(tx, assigned, dueDate) ==
    IF tx.id \in assigned
    THEN FALSE
    ELSE LET windowStart == addDays(dueDate, -7)
             windowEnd   == addDays(dueDate, 7)
         IN  tx.date >= windowStart /\ tx.date <= windowEnd

\* the filter callback with a window that opens 2 days before the due date
countsTowardWeekNarrow(tx, assigned, dueDate) ==
    IF tx.id \in assigned
    THEN FALSE
    ELSE LET windowStart == addDays(dueDate, -2)
             windowEnd   == addDays(dueDate, 3)
         IN  tx.date >= windowStart /\ tx.date <= windowEnd

\* the filter callback of the week loop
countsTowardWeek(tx, assigned, dueDate) ==
    IF tx.id \in assigned
    THEN FALSE
    ELSE LET windowStart == addDays(dueDate, -7)
             windowEnd   == addDays(dueDate, 3)
         IN  tx.date >= windowStart /\ tx.date <= windowEnd

weekPaymentsOf(txs, assigned, dueDate) ==
    SelectSeq(txs, LAMBDA tx : countsTowardWeek(tx, assigned, dueDate))

\* txs.reduce((sum, tx) => sum + tx.amount, 0)
RECURSIVE sumAmounts(_)
sumAmounts(txs) ==
    IF txs = <<>> THEN 0 ELSE Head(txs).amount + sumAmounts(Tail(txs))

Ids(txs) == {txs[i].id : i \in 1..Len(txs)}

\* weekPayments.map((tx) => ({ id, date, amount, description, matchType, confidence }))
paymentTransactionsOf(weekPayments) ==
    [i \in 1..Len(weekPayments) |->
        [id |-> weekPayments[i].id,
         date |-> weekPayments[i].date,
         amount |-> weekPayments[i].amount,
         matchType |-> weekPayments[i].matchType]]

\* one element of weeklyBreakdown
weeklyObligation(weekStart, dueDate, amountDue, weekPayments) ==
    LET amountPaid == sumAmounts(weekPayments)
    IN  [weekStart |-> weekStart,
         weekEnd   |-> endOfWeek(weekStart, 1),
         dueDate   |-> dueDate,
         amountDue |-> amountDue,
         amountPaid |-> amountPaid,
         balance   |-> amountPaid - amountDue,
         paymentTransactions |-> paymentTransactionsOf(weekPayments)]

\* sum of the amountPaid of the weeks of a breakdown
RECURSIVE sumAmountPaid(_)
sumAmountPaid(breakdown) ==
    IF breakdown = <<>> THEN 0
    ELSE Head(breakdown).amountPaid + sumAmountPaid(Tail(breakdown))

\* the returned object with totalPaid summed over the weeks of the breakdown
flatmateBalanceFromWeeks(uid, due, txs, breakdown, currentRate) ==
    LET totalPaid == sumAmountPaid(breakdown)
    IN  [userId |-> uid,
         totalDue |-> due,
         totalPaid |-> totalPaid,
         balance |-> totalPaid - due,
         weeklyBreakdown |-> breakdown,
         currentWeeklyRate |-> IF currentRate = 0 THEN Null ELSE currentRate]

\* the returned object with balance = totalDue - totalPaid
flatmateBalanceOwed(uid, due, txs, breakdown, currentRate) ==
    LET totalPaid == sumAmounts(txs)
    IN  [userId |-> uid,
         totalDue |-> due,
         totalPaid |-> totalPaid,
         balance |-> due - totalPaid,
         weeklyBreakdown |-> breakdown,
         currentWeeklyRate |-> IF currentRate = 0 THEN Null ELSE currentRate]

\* lines 209-225: totalPaid over all the user's transactions, and the
\* FlatmateBalance returned (currentRate || null)
flatmateBalance(uid, due, txs, breakdown, currentRate) ==
    LET totalPaid == sumAmounts(txs)
    IN  [userId |-> uid,
         totalDue |-> due,
         totalPaid |-> totalPaid,
         balance |-> totalPaid - due,
         weeklyBreakdown |-> breakdown,
         currentWeeklyRate |-> IF currentRate = 0 THEN Null ELSE currentRate]

-----------------------------------------------------------------------------
(* Bounds of the model                                                      *)

MaxStart == 4           \* the window starts at most this many days after FirstDay
MaxNow == 14            \* the clock at the call is at most this many days after FirstDay
MaxClockAdvance == 1    \* the clock advances at most this much during one calculation

FirstDay == NewDate(2024, 0, 1)     \* a Monday
Rate == 2

StartDates == FirstDay .. FirstDay + MaxStart
NowDates   == FirstDay .. FirstDay + MaxNow
TxDates    == FirstDay .. FirstDay + MaxNow

Tx(id, uid, matchType, amount, date) ==
    [id |-> id, matchedUserId |-> uid, matchType |-> matchType,
     amount |-> amount, date |-> date]

Schedule(uid, start, end, amount) ==
    [userId |-> uid, startDate |-> start, endDate |-> end, weeklyAmount |-> amount]

\* Two rent payments: t1 of the flatmate, t2 of the flatmate or of another user.
TransactionStores ==
    {<<Tx("t1", "u1", "rent_payment", Rate, d1), Tx("t2", u, "rent_payment", 1, d2)>> :
        <<d1, d2, u>> \in TxDates \X TxDates \X {"u1", "u2"}}

\* Another user's schedule, and the flatmate's open-ended schedule that starts
\* with the first or with the second week.
ScheduleStores ==
    {<<Schedule("u2", FirstDay, Null, 1), Schedule("u1", s, Null, Rate)>> :
        s \in {FirstDay, FirstDay + 7}}

-----------------------------------------------------------------------------
(* calculateFlatmateBalance                                                 *)

NoProbe == [op |-> "none"]

\* Neither calculateAllBalances nor calculateUserBalance is running.
\* No expense report is asked for and the migration script is not running.
RestIdle ==
    /\ expenseCategories = <<>>
    /\ expenseTransactions = <<>>
    /\ script = [pc |-> "none"]

NoAggregate ==
    /\ users = <<>>
    /\ systemState = <<>>
    /\ call = [fn |-> "none"]
    /\ frames = <<>>

InitCalc(txStores, schedStores) ==
    /\ clock \in NowDates
    /\ endDate = clock                  \* the callers pass `new Date()`
    /\ startDate \in StartDates
    /\ userId = "u1"
    /\ transactions \in txStores
    /\ paymentSchedules \in schedStores
    /\ pc = "start"
    /\ schedules = <<>>
    /\ userTransactions = <<>>
    /\ weeks = <<>>
    /\ idx = 1
    /\ weeklyBreakdown = <<>>
    /\ totalDue = 0
    /\ assignedTransactionIds = {}
    /\ visited = <<>>
    /\ result = Null
    /\ probe = NoProbe
    /\ NoAggregate
    /\ RestIdle

Init == InitCalc(TransactionStores, ScheduleStores)

\* `new Date()`: the clock may have advanced since it was last read.
ClockReadings == {t \in clock .. clock + 1 : t <= endDate + MaxClockAdvance}

\* lines 122-125: the schedule query
FetchSchedules ==
    /\ pc = "start"
    /\ schedules' = selectSchedules(paymentSchedules, userId)
    /\ pc' = "schedules"
    /\ UNCHANGED <<clock, paymentSchedules, transactions, userId, startDate, endDate,
                   userTransactions, weeks, idx, weeklyBreakdown, totalDue,
                   assignedTransactionIds, visited, result, probe, aggVars, restVars>>

\* lines 128-152: the transaction query, then the weeks of the window
FetchTransactions ==
    /\ pc = "schedules"
    /\ startDate <= endDate
    /\ userTransactions' = selectTransactions(transactions, userId, startDate, endDate)
    /\ weeks' = eachWeekOfInterval(startDate, endDate, 1)
    /\ pc' = "loop"
    /\ UNCHANGED <<clock, paymentSchedules, transactions, userId, startDate, endDate,
                   schedules, idx, weeklyBreakdown, totalDue,
                   assignedTransactionIds, visited, result, probe, aggVars, restVars>>

\* lines 143-146 with start after end: date-fns 2 throws RangeError("Invalid
\* interval"), date-fns 3 and later return the weeks in decreasing order.
FetchTransactionsReversed ==
    /\ pc = "schedules"
    /\ startDate > endDate
    /\ userTransactions' = selectTransactions(transactions, userId, startDate, endDate)
    /\ \/ /\ pc' = "threw"
          /\ weeks' = <<>>
       \/ /\ pc' = "loop"
          /\ weeks' = Reverse(eachWeekOfInterval(endDate, startDate, 1))
    /\ UNCHANGED <<clock, paymentSchedules, transactions, userId, startDate, endDate,
                   schedules, idx, weeklyBreakdown, totalDue,
                   assignedTransactionIds, visited, result, probe, aggVars, restVars>>

\* lines 154-162: an iteration that skips a week whose due date is in the future
SkipWeek ==
    /\ pc = "loop"
    /\ idx <= Len(weeks)
    /\ \E now \in ClockReadings :
        LET weekStart == weeks[idx]
            dueDate   == getDueThursday(weekStart)
        IN  /\ isAfter(dueDate, now)
            /\ clock' = now
            /\ visited' = Append(visited, [weekStart |-> weekStart, now |-> now])
    /\ idx' = idx + 1
    /\ UNCHANGED <<paymentSchedules, transactions, pc, userId, startDate, endDate,
                   schedules, userTransactions, weeks, weeklyBreakdown, totalDue,
                   assignedTransactionIds, result, probe, aggVars, restVars>>

\* lines 154-206: an iteration that adds a week to the breakdown
ProcessWeek ==
    /\ pc = "loop"
    /\ idx <= Len(weeks)
    /\ \E now \in ClockReadings :
        LET weekStart    == weeks[idx]
            dueDate      == getDueThursday(weekStart)
            amountDue    == getWeeklyAmount(schedules, weekStart)
            weekPayments == weekPaymentsOf(userTransactions, assignedTransactionIds, dueDate)
        IN  /\ ~isAfter(dueDate, now)
            /\ clock' = now
            /\ visited' = Append(visited, [weekStart |-> weekStart, now |-> now])
            /\ assignedTransactionIds' = assignedTransactionIds \cup Ids(weekPayments)
            /\ totalDue' = totalDue + amountDue
            /\ weeklyBreakdown' =
                 Append(weeklyBreakdown,
                        weeklyObligation(weekStart, dueDate, amountDue, weekPayments))
    /\ idx' = idx + 1
    /\ UNCHANGED <<paymentSchedules, transactions, pc, userId, startDate, endDate,
                   schedules, userTransactions, weeks, result, probe, aggVars, restVars>>

\* lines 209-225: the totals and the returned FlatmateBalance
Finish ==
    /\ pc = "loop"
    /\ idx > Len(weeks)
    /\ \E now \in ClockReadings :
        /\ clock' = now
        /\ result' = flatmateBalance(userId, totalDue, userTransactions,
                                     weeklyBreakdown, getWeeklyAmount(schedules, now))
    /\ pc' = "done"
    /\ UNCHANGED <<paymentSchedules, transactions, userId, startDate, endDate,
                   schedules, userTransactions, weeks, idx, weeklyBreakdown, totalDue,
                   assignedTransactionIds, visited, probe, aggVars, restVars>>

Next ==
    \/ FetchSchedules
    \/ FetchTransactions
    \/ FetchTransactionsReversed
    \/ SkipWeek
    \/ ProcessWeek
    \/ Finish

Spec == Init /\ [][Next]_vars

-----------------------------------------------------------------------------
(* calculateFlatmateBalance over a store that holds rows of every kind      *)

\* The match types of a stored row; "null" stands for a row whose matchType
\* is NULL.
MatchTypes == {"rent_payment", "expense", "null"}

\* t1 is matched to the flatmate or to another user, has any match type and a
\* negative, zero or positive amount; t2 is a payment of 1 that is a rent
\* payment or an expense share. Both are dated in the first or second week.
FilterTxDates == {FirstDay + 2, FirstDay + 9}

FilterTransactionStores ==
    {<<Tx("t1", u, m1, a, d1), Tx("t2", "u1", m2, 1, d2)>> :
        <<u, m1, a, d1, m2, d2>> \in
            {"u1", "u2"} \X MatchTypes \X {0 - Rate, 0, Rate} \X FilterTxDates
                \X {"rent_payment", "expense"} \X FilterTxDates}

InitFilter == InitCalc(FilterTransactionStores, ScheduleStores)

SpecFilter == InitFilter /\ [][Next]_vars

-----------------------------------------------------------------------------
(* getAnalysisStartDate, calculateAllBalances and calculateUserBalance      *)

\* an Invalid Date: its getTime() is NaN
InvalidDate == -2
isNaN(time) == time = InvalidDate

\* new Date(value) on the texts the settings store holds
parseDate(value) ==
    CASE value = "2024-01-01" -> NewDate(2024, 0, 1)
      [] value = "2024-01-05" -> NewDate(2024, 0, 5)
      [] OTHER -> InvalidDate

\* getAnalysisStartDate without the isNaN check
getAnalysisStartDateUnchecked(store) ==
    LET setting == SelectSeq(store, LAMBDA r : r.key = "analysis_start_date")
    IN  IF Len(setting) = 0 \/ setting[1].value = ""
        THEN Null
        ELSE parseDate(setting[1].value)

\* lines 17-30
getAnalysisStartDate(store) ==
    LET setting == SelectSeq(store, LAMBDA r : r.key = "analysis_start_date")
    IN  IF Len(setting) = 0 \/ setting[1].value = ""
        THEN Null
        ELSE LET date == parseDate(setting[1].value)
             IN  IF isNaN(date) THEN Null ELSE date

DefaultWindowDays == 180

\* startDate ?? configuredStartDate ?? new Date(Date.now() - 180 * 24 * 60 * 60 * 1000)
calcStartDateOf(start, configuredStartDate, now) ==
    IF start # Null THEN start
    ELSE IF configuredStartDate # Null THEN configuredStartDate
    ELSE now - DefaultWindowDays

\* the user query restricted to the rows that are not administrators
selectUsersNotAdmin(store) ==
    LET rows == SelectSeq(store, LAMBDA r : r.role # "admin")
    IN  [i \in 1..Len(rows) |-> [id |-> rows[i].id]]

\* db.select({ id, name, email }).from(users)
selectUsers(store) ==
    [i \in 1..Len(store) |-> [id |-> store[i].id]]

\* the user lookup without its where clause
selectFirstUser(store, uid) ==
    IF Len(store) = 0 THEN <<>> ELSE <<[id |-> store[1].id]>>

\* db.select({ id, name, email }).from(users).where(eq(users.id, userId)).limit(1)
selectUserById(store, uid) ==
    LET rows == SelectSeq(store, LAMBDA r : r.id = uid)
    IN  IF Len(rows) = 0 THEN <<>> ELSE <<[id |-> rows[1].id]>>

\* lines 154-207: the week loop, every `new Date()` of it reading `now`
RECURSIVE weekLoop(_, _, _, _, _)
weekLoop(ws, now, scheds, txs, acc) ==
    IF ws = <<>> THEN acc
    ELSE LET weekStart == Head(ws)
             dueDate   == getDueThursday(weekStart)
         IN  IF isAfter(dueDate, now)
             THEN weekLoop(Tail(ws), now, scheds, txs, acc)
             ELSE LET amountDue    == getWeeklyAmount(scheds, weekStart)
                      weekPayments == weekPaymentsOf(txs, acc.assignedTransactionIds, dueDate)
                  IN  weekLoop(Tail(ws), now, scheds, txs,
                        [weeklyBreakdown |->
                            Append(acc.weeklyBreakdown,
                                   weeklyObligation(weekStart, dueDate, amountDue, weekPayments)),
                         totalDue |-> acc.totalDue + amountDue,
                         assignedTransactionIds |->
                            acc.assignedTransactionIds \cup Ids(weekPayments)])

\* lines 148-225: from the week list to the FlatmateBalance
balanceOver(uid, ws, now, scheds, txs) ==
    LET acc == weekLoop(ws, now, scheds, txs,
                        [weeklyBreakdown |-> <<>>, totalDue |-> 0,
                         assignedTransactionIds |-> {}])
    IN  flatmateBalance(uid, acc.totalDue, txs, acc.weeklyBreakdown,
                        getWeeklyAmount(scheds, now))

\* balances.reduce((sum, b) => sum + b.totalDue, 0), and likewise
RECURSIVE sumTotalDue(_)
sumTotalDue(balances) ==
    IF balances = <<>> THEN 0 ELSE Head(balances).totalDue + sumTotalDue(Tail(balances))

RECURSIVE sumTotalPaid(_)
sumTotalPaid(balances) ==
    IF balances = <<>> THEN 0 ELSE Head(balances).totalPaid + sumTotalPaid(Tail(balances))

RECURSIVE sumBalance(_)
sumBalance(balances) ==
    IF balances = <<>> THEN 0 ELSE Head(balances).balance + sumBalance(Tail(balances))

\* lines 252-257: the PaymentSummary returned
paymentSummary(balances) ==
    [flatmates |-> balances,
     totalDue |-> sumTotalDue(balances),
     totalPaid |-> sumTotalPaid(balances),
     totalBalance |-> sumBalance(balances)]

\* The user store: an administrator and a flatmate, or the administrator
\* alone (the rows that reference u2 then reference a user that is not there).
UserStores ==
    {<<[id |-> "u1", role |-> "admin"], [id |-> "u2", role |-> "user"]>>,
     <<[id |-> "u1", role |-> "admin"]>>}

Setting(key, value) == [key |-> key, value |-> value]

\* The settings store: no analysis_start_date row, an empty one, one that is
\* no date, and two that are dates.
SettingStores ==
    {<<>>,
     <<Setting("last_sync", "2024-01-05")>>,
     <<Setting("analysis_start_date", "")>>,
     <<Setting("analysis_start_date", "not a date")>>,
     <<Setting("analysis_start_date", "2024-01-01")>>,
     <<Setting("last_sync", "2024-01-01"), Setting("analysis_start_date", "2024-01-05")>>}

\* A rent payment of each user.
AllTransactionStores ==
    {<<Tx("t1", "u1", "rent_payment", Rate, d), Tx("t2", "u2", "rent_payment", 1, FirstDay + 3)>> :
        d \in {FirstDay + 2, FirstDay + 9}}

\* The calls start on a Wednesday or on a Thursday.
AllNowDates == {d \in NowDates : getDay(d) \in {3, 4}}

\* The startDate argument: none, or the first or the last of StartDates.
StartArguments == {Null, FirstDay, FirstDay + MaxStart}

\* calculateAllBalances(startDate?) and calculateUserBalance(userId, startDate?);
\* no user store holds u3.
Calls ==
    {[fn |-> "calculateAllBalances", userId |-> "none", startDate |-> a] :
        a \in StartArguments}
    \cup
    {[fn |-> "calculateUserBalance", userId |-> u, startDate |-> a] :
        <<u, a>> \in {"u1", "u2", "u3"} \X StartArguments}

NewCall(c, now) ==
    [fn |-> c.fn, userId |-> c.userId, startDate |-> c.startDate,
     pc |-> IF c.fn = "calculateUserBalance" THEN "start" ELSE "config",
     calledAt |-> now,
     configuredStartDate |-> Null, calcStartDate |-> Null, endDate |-> Null,
     flatmates |-> <<>>, returned |-> "nothing", ret |-> <<>>]

NewFrame ==
    [pc |-> "start", schedules |-> <<>>, userTransactions |-> <<>>, balance |-> <<>>]

InitAll ==
    /\ clock \in AllNowDates
    /\ transactions \in AllTransactionStores
    /\ paymentSchedules \in ScheduleStores
    /\ users \in UserStores
    /\ systemState \in SettingStores
    /\ \E c \in Calls : call = NewCall(c, clock)
    /\ frames = <<>>
    /\ endDate = clock
    /\ startDate = clock
    /\ userId = "none"
    /\ pc = "idle"
    /\ schedules = <<>>
    /\ userTransactions = <<>>
    /\ weeks = <<>>
    /\ idx = 1
    /\ weeklyBreakdown = <<>>
    /\ totalDue = 0
    /\ assignedTransactionIds = {}
    /\ visited = <<>>
    /\ result = Null
    /\ probe = NoProbe
    /\ RestIdle

\* `new Date()` and Date.now() during a call of the two entry points
CallClockReadings == {t \in clock .. clock + 1 : t <= call.calledAt + MaxClockAdvance}

\* the frames dispatched for a list of flatmates
Dispatch(flatmates) ==
    [u \in {flatmates[i].id : i \in 1..Len(flatmates)} |-> NewFrame]

\* lines 267-279: the user lookup of calculateUserBalance
LookUpUser ==
    /\ call.fn = "calculateUserBalance"
    /\ call.pc = "start"
    /\ LET user == selectUserById(users, call.userId)
       IN  IF Len(user) = 0
           THEN call' = [call EXCEPT !.pc = "done", !.returned = "null"]
           ELSE call' = [call EXCEPT !.pc = "config", !.flatmates = user]
    /\ UNCHANGED <<calcVars, probe, restVars, users, systemState, frames>>

\* lines 233-235 and 282-292: the configured start date, the window, and for
\* calculateUserBalance the call of calculateFlatmateBalance
ReadAnalysisStartDate ==
    /\ call.fn \in {"calculateAllBalances", "calculateUserBalance"}
    /\ call.pc = "config"
    /\ \E now \in CallClockReadings, dateNow \in CallClockReadings :
        LET configuredStartDate == getAnalysisStartDate(systemState)
        IN  /\ dateNow <= now
            /\ clock' = now
            /\ call' = [call EXCEPT
                    !.configuredStartDate = configuredStartDate,
                    !.calcStartDate =
                        calcStartDateOf(call.startDate, configuredStartDate, dateNow),
                    !.endDate = now,
                    !.pc = IF call.fn = "calculateUserBalance" THEN "await" ELSE "users"]
    /\ frames' = IF call.fn = "calculateUserBalance" THEN Dispatch(call.flatmates)
                 ELSE frames
    /\ UNCHANGED <<paymentSchedules, transactions, pc, userId, startDate, endDate,
                   schedules, userTransactions, weeks, idx, weeklyBreakdown, totalDue,
                   assignedTransactionIds, visited, result, probe, restVars, users, systemState>>

\* lines 238-250: the user query, and a calculateFlatmateBalance per flatmate
ReadUsers ==
    /\ call.fn = "calculateAllBalances"
    /\ call.pc = "users"
    /\ LET flatmates == selectUsers(users)
       IN  /\ call' = [call EXCEPT !.flatmates = flatmates, !.pc = "await"]
           /\ frames' = Dispatch(flatmates)
    /\ UNCHANGED <<calcVars, probe, restVars, users, systemState>>

\* lines 122-125 in the frame of flatmate u
FrameFetchSchedules(u) ==
    /\ frames[u].pc = "start"
    /\ frames' = [frames EXCEPT ![u].schedules = selectSchedules(paymentSchedules, u),
                                ![u].pc = "schedules"]
    /\ UNCHANGED <<calcVars, probe, restVars, users, systemState, call>>

\* lines 128-139 in the frame of flatmate u
FrameFetchTransactions(u) ==
    /\ frames[u].pc = "schedules"
    /\ frames' = [frames EXCEPT
            ![u].userTransactions =
                selectTransactions(transactions, u, call.calcStartDate, call.endDate),
            ![u].pc = "transactions"]
    /\ UNCHANGED <<calcVars, probe, restVars, users, systemState, call>>

\* lines 143-225 in the frame of flatmate u: the loop and the return run
\* without yielding
FrameRun(u) ==
    /\ frames[u].pc = "transactions"
    /\ call.calcStartDate <= call.endDate
    /\ \E now \in CallClockReadings :
        /\ clock' = now
        /\ frames' = [frames EXCEPT
                ![u].balance =
                    balanceOver(u, eachWeekOfInterval(call.calcStartDate, call.endDate, 1),
                                now, frames[u].schedules, frames[u].userTransactions),
                ![u].pc = "done"]
    /\ UNCHANGED <<paymentSchedules, transactions, pc, userId, startDate, endDate,
                   schedules, userTransactions, weeks, idx, weeklyBreakdown, totalDue,
                   assignedTransactionIds, visited, result, probe, restVars, users, systemState,
                   call>>

\* lines 143-225 with the start after the end: eachWeekOfInterval throws, or
\* returns the weeks in decreasing order
FrameRunReversed(u) ==
    /\ frames[u].pc = "transactions"
    /\ call.calcStartDate > call.endDate
    /\ \E now \in CallClockReadings :
        /\ clock' = now
        /\ \/ frames' = [frames EXCEPT ![u].pc = "threw"]
           \/ frames' = [frames EXCEPT
                ![u].balance =
                    balanceOver(u,
                        Reverse(eachWeekOfInterval(call.endDate, call.calcStartDate, 1)),
                        now, frames[u].schedules, frames[u].userTransactions),
                ![u].pc = "done"]
    /\ UNCHANGED <<paymentSchedules, transactions, pc, userId, startDate, endDate,
                   schedules, userTransactions, weeks, idx, weeklyBreakdown, totalDue,
                   assignedTransactionIds, visited, result, probe, restVars, users, systemState,
                   call>>

\* lines 246-257: Promise.all resolved, the PaymentSummary
ReturnSummary ==
    /\ call.fn = "calculateAllBalances"
    /\ call.pc = "await"
    /\ \A u \in DOMAIN frames : frames[u].pc = "done"
    /\ LET balances == [i \in 1..Len(call.flatmates) |->
                            frames[call.flatmates[i].id].balance]
       IN  call' = [call EXCEPT !.ret = paymentSummary(balances),
                                !.returned = "value", !.pc = "done"]
    /\ UNCHANGED <<calcVars, probe, restVars, users, systemState, frames>>

\* lines 286-292: the FlatmateBalance of the user
ReturnBalance ==
    /\ call.fn = "calculateUserBalance"
    /\ call.pc = "await"
    /\ frames[call.flatmates[1].id].pc = "done"
    /\ call' = [call EXCEPT !.ret = frames[call.flatmates[1].id].balance,
                            !.returned = "value", !.pc = "done"]
    /\ UNCHANGED <<calcVars, probe, restVars, users, systemState, frames>>

\* a calculateFlatmateBalance rejected: so does the entry point
Reject ==
    /\ call.fn \in {"calculateAllBalances", "calculateUserBalance"}
    /\ call.pc = "await"
    /\ \E u \in DOMAIN frames : frames[u].pc = "threw"
    /\ call' = [call EXCEPT !.pc = "threw"]
    /\ UNCHANGED <<calcVars, probe, restVars, users, systemState, frames>>

NextAll ==
    \/ LookUpUser
    \/ ReadAnalysisStartDate
    \/ ReadUsers
    \/ \E u \in DOMAIN frames : FrameFetchSchedules(u)
    \/ \E u \in DOMAIN frames : FrameFetchTransactions(u)
    \/ \E u \in DOMAIN frames : FrameRun(u)
    \/ \E u \in DOMAIN frames : FrameRunReversed(u)
    \/ ReturnSummary
    \/ ReturnBalance
    \/ Reject

SpecAll == InitAll /\ [][NextAll]_vars

-----------------------------------------------------------------------------
(* getCurrentWeekSummary                                                    *)

\* lines 349-360. The amounts are whole numbers and amountDue * 1.1 and
\* amountDue * 0.95 are compared after scaling by 10 and by 100; for the
\* amounts of the stores below no product equals the amount paid unless both
\* are 0, so the rounding of the floating-point product decides nothing.
statusOf(amountPaid, amountDue) ==
    IF amountPaid = 0 /\ amountDue > 0 THEN "unpaid"
    ELSE IF 10 * amountPaid >= 11 * amountDue THEN "overpaid"
    ELSE IF 100 * amountPaid >= 95 * amountDue THEN "paid"
    ELSE IF amountPaid > 0 THEN "partial"
    ELSE "paid"

\* the row with a payment window that ends on the due date
summaryRowUntilDue(uid, amountDue, dueDate, store) ==
    LET windowStart == addDays(dueDate, -7)
        windowEnd   == dueDate
        payments    == selectTransactions(store, uid, windowStart, windowEnd)
        amountPaid  == sumAmounts(payments)
    IN  [userId |-> uid, amountDue |-> amountDue, amountPaid |-> amountPaid,
         status |-> statusOf(amountPaid, amountDue)]

\* lines 331-368: the payments of the week, their sum and the row returned
summaryRow(uid, amountDue, dueDate, store) ==
    LET windowStart == addDays(dueDate, -7)
        windowEnd   == addDays(dueDate, 3)
        payments    == selectTransactions(store, uid, windowStart, windowEnd)
        amountPaid  == sumAmounts(payments)
    IN  [userId |-> uid, amountDue |-> amountDue, amountPaid |-> amountPaid,
         status |-> statusOf(amountPaid, amountDue)]

\* A payment of u1 of less than, exactly and more than the rate, on any day,
\* and a payment of u2 in the first or in the second week.
SummaryTransactionStores ==
    {<<Tx("t1", "u1", "rent_payment", a, d1), Tx("t2", "u2", "rent_payment", 1, d2)>> :
        <<a, d1, d2>> \in {Rate - 1, Rate, Rate + 1} \X TxDates \X {FirstDay + 3, FirstDay + 10}}

NewSummaryFrame == [pc |-> "start", amountDue |-> 0, row |-> <<>>]

InitSummary ==
    /\ clock \in NowDates
    /\ transactions \in SummaryTransactionStores
    /\ paymentSchedules \in ScheduleStores
    /\ users \in UserStores
    /\ systemState = <<>>
    /\ call = [fn |-> "getCurrentWeekSummary", pc |-> "start", now |-> Null,
               weekStart |-> Null, dueDate |-> Null, flatmates |-> <<>>, ret |-> <<>>]
    /\ frames = <<>>
    /\ endDate = clock
    /\ startDate = clock
    /\ userId = "none"
    /\ pc = "idle"
    /\ schedules = <<>>
    /\ userTransactions = <<>>
    /\ weeks = <<>>
    /\ idx = 1
    /\ weeklyBreakdown = <<>>
    /\ totalDue = 0
    /\ assignedTransactionIds = {}
    /\ visited = <<>>
    /\ result = Null
    /\ probe = NoProbe
    /\ RestIdle

\* lines 307-321: the current week, the user query, and a callback per flatmate
StartSummary ==
    /\ call.fn = "getCurrentWeekSummary"
    /\ call.pc = "start"
    /\ LET now       == clock
           weekStart == startOfWeek(now, 1)
           flatmates == selectUsers(users)
       IN  /\ call' = [call EXCEPT !.now = now, !.weekStart = weekStart,
                                   !.dueDate = getDueThursday(weekStart),
                                   !.flatmates = flatmates, !.pc = "await"]
           /\ frames' = [u \in {flatmates[i].id : i \in 1..Len(flatmates)} |->
                            NewSummaryFrame]
    /\ UNCHANGED <<calcVars, probe, restVars, users, systemState>>

\* lines 323-328 in the callback of flatmate u
SummaryFetchSchedules(u) ==
    /\ call.fn = "getCurrentWeekSummary"
    /\ frames[u].pc = "start"
    /\ frames' = [frames EXCEPT
            ![u].amountDue =
                getWeeklyAmount(selectSchedules(paymentSchedules, u), call.weekStart),
            ![u].pc = "schedules"]
    /\ UNCHANGED <<calcVars, probe, restVars, users, systemState, call>>

\* lines 331-368 in the callback of flatmate u
SummaryFetchPayments(u) ==
    /\ call.fn = "getCurrentWeekSummary"
    /\ frames[u].pc = "schedules"
    /\ frames' = [frames EXCEPT
            ![u].row = summaryRow(u, frames[u].amountDue, call.dueDate, transactions),
            ![u].pc = "done"]
    /\ UNCHANGED <<calcVars, probe, restVars, users, systemState, call>>

\* lines 320 and 372: Promise.all resolved, the summary
ReturnWeekSummary ==
    /\ call.fn = "getCurrentWeekSummary"
    /\ call.pc = "await"
    /\ \A u \in DOMAIN frames : frames[u].pc = "done"
    /\ call' = [call EXCEPT
            !.ret = [i \in 1..Len(call.flatmates) |-> frames[call.flatmates[i].id].row],
            !.pc = "done"]
    /\ UNCHANGED <<calcVars, probe, restVars, users, systemState, frames>>

NextSummary ==
    \/ StartSummary
    \/ \E u \in DOMAIN frames : SummaryFetchSchedules(u)
    \/ \E u \in DOMAIN frames : SummaryFetchPayments(u)
    \/ ReturnWeekSummary

SpecSummary == InitSummary /\ [][NextSummary]_vars

-----------------------------------------------------------------------------
(* calculateFlatmateBalance and getCurrentWeekSummary over the same stores  *)

\* Two rent payments of the flatmate: t1 early or late in the first week, in
\* the second week, or after its due date; t2 on the first Thursday or in the
\* second week.
CompareTransactionStores ==
    {<<Tx("t1", "u1", "rent_payment", Rate, d1), Tx("t2", "u1", "rent_payment", 1, d2)>> :
        <<d1, d2>> \in {FirstDay + 1, FirstDay + 3, FirstDay + 5, FirstDay + 8, FirstDay + 12}
                        \X {FirstDay + 3, FirstDay + 9}}

\* The balance of u1 is calculated while the summary of the week is computed.
InitCompare ==
    /\ clock \in NowDates
    /\ endDate = clock
    /\ startDate \in StartDates
    /\ userId = "u1"
    /\ transactions \in CompareTransactionStores
    /\ paymentSchedules \in ScheduleStores
    /\ users \in {store \in UserStores : Len(store) = 1}
    /\ systemState = <<>>
    /\ call = [fn |-> "getCurrentWeekSummary", pc |-> "start", now |-> Null,
               weekStart |-> Null, dueDate |-> Null, flatmates |-> <<>>, ret |-> <<>>]
    /\ frames = <<>>
    /\ pc = "start"
    /\ schedules = <<>>
    /\ userTransactions = <<>>
    /\ weeks = <<>>
    /\ idx = 1
    /\ weeklyBreakdown = <<>>
    /\ totalDue = 0
    /\ assignedTransactionIds = {}
    /\ visited = <<>>
    /\ result = Null
    /\ probe = NoProbe
    /\ RestIdle

NextCompare == Next \/ NextSummary

SpecCompare == InitCompare /\ [][NextCompare]_vars

-----------------------------------------------------------------------------
(* Expense reports: getExpenseSummary and getMonthlyExpenseBreakdown        *)

\* Date.prototype.getFullYear / getMonth / getDate of a day number
civil(date) ==
    LET z   == date + 719468
        era == z \div 146097
        doe == z - era * 146097
        yoe == (doe - doe \div 1460 + doe \div 36524 - doe \div 146096) \div 365
        doy == doe - (365 * yoe + yoe \div 4 - yoe \div 100)
        mp  == (5 * doy + 2) \div 153
        m   == IF mp < 10 THEN mp + 3 ELSE mp - 9
    IN  [year  |-> yoe + era * 400 + (IF m <= 2 THEN 1 ELSE 0),
         month |-> m - 1,
         day   |-> doy - (153 * mp + 2) \div 5 + 1]

getFullYear(date) == civil(date).year
getMonth(date) == civil(date).month
getDate(date) == civil(date).day

\* the first day of the month that is `months` months after January of year 0
monthStart(months) == NewDate(months \div 12, months % 12, 1)

\* date-fns startOfMonth, endOfMonth, getDaysInMonth
startOfMonth(date) == NewDate(getFullYear(date), getMonth(date), 1)
endOfMonth(date) == monthStart(getFullYear(date) * 12 + getMonth(date) + 1) - 1
getDaysInMonth(months) == monthStart(months + 1) - monthStart(months)

\* date-fns subMonths: the same day of the earlier month, or its last day
subMonths(date, amount) ==
    LET target == getFullYear(date) * 12 + getMonth(date) - amount
        days   == getDaysInMonth(target)
        day    == IF getDate(date) > days THEN days ELSE getDate(date)
    IN  monthStart(target) + day - 1

\* date-fns differenceInDays and subDays on whole days
differenceInDays(dateLeft, dateRight) == dateLeft - dateRight
subDays(date, amount) == date - amount

\* toLocaleDateString("en-NZ", { month: "short", year: "2-digit" })
monthLabel(date) == [month |-> getMonth(date), year |-> getFullYear(date) % 100]

MathAbs(x) == IF x < 0 THEN 0 - x ELSE x

\* txs.reduce((sum, tx) => sum + Math.abs(tx.amount), 0)
RECURSIVE sumAbs(_)
sumAbs(txs) ==
    IF txs = <<>> THEN 0 ELSE MathAbs(Head(txs).amount) + sumAbs(Tail(txs))

\* .orderBy(expenseCategories.sortOrder)
RECURSIVE InsertBySortOrder(_, _)
InsertBySortOrder(c, sorted) ==
    IF sorted = <<>> THEN <<c>>
    ELSE IF c.sortOrder < Head(sorted).sortOrder
         THEN <<c>> \o sorted
         ELSE <<Head(sorted)>> \o InsertBySortOrder(c, Tail(sorted))

RECURSIVE sortBySortOrder(_)
sortBySortOrder(cats) ==
    IF cats = <<>> THEN <<>>
    ELSE InsertBySortOrder(cats[Len(cats)],
                           sortBySortOrder(SubSeq(cats, 1, Len(cats) - 1)))

\* part_003 lines 38-42: the active categories in sort order
selectActiveCategories(store) ==
    sortBySortOrder(SelectSeq(store, LAMBDA c : c.isActive))

\* the rows of expenseTransactions of a category, joined with their transaction
RECURSIVE joinTransactions(_, _, _)
joinTransactions(filed, txStore, categoryId) ==
    IF filed = <<>> THEN <<>>
    ELSE LET row     == Head(filed)
             matches == SelectSeq(txStore, LAMBDA tx : tx.id = row.transactionId)
             rest    == joinTransactions(Tail(filed), txStore, categoryId)
         IN  IF row.categoryId = categoryId /\ Len(matches) > 0
             THEN <<[transactionId |-> row.transactionId,
                     amount |-> matches[1].amount,
                     date |-> matches[1].date]>> \o rest
             ELSE rest

\* a quotient that is not rounded: num / den
Ratio(num, den) == [num |-> num, den |-> den]

\* part_003 lines 58-98: the summary of one category; trend is <<>> when it
\* is left undefined
categorySummary(category, expenseTxs, start, end) ==
    LET filteredTxs ==
            IF start # Null \/ end # Null
            THEN SelectSeq(expenseTxs, LAMBDA tx :
                    /\ ~(start # Null /\ tx.date < start)
                    /\ ~(end # Null /\ tx.date > end))
            ELSE expenseTxs
        totalAmount == sumAbs(filteredTxs)
        transactionCount == Len(filteredTxs)
        trend ==
            IF start # Null /\ end # Null
            THEN LET periodLength  == differenceInDays(end, start)
                     prevStartDate == subDays(start, periodLength)
                     prevEndDate   == subDays(end, periodLength)
                     prevTxs == SelectSeq(expenseTxs, LAMBDA tx :
                                    tx.date >= prevStartDate /\ tx.date <= prevEndDate)
                     prevTotal == sumAbs(prevTxs)
                 IN  IF prevTotal > 0
                     THEN <<Ratio((totalAmount - prevTotal) * 100, prevTotal)>>
                     ELSE <<>>
            ELSE <<>>
    IN  [category |-> category,
         totalAmount |-> totalAmount,
         transactionCount |-> transactionCount,
         averageAmount |-> IF transactionCount > 0
                           THEN Ratio(totalAmount, transactionCount)
                           ELSE Ratio(0, 1),
         trend |-> trend]

\* part_003 lines 327-351: the entry of the month i months before now
monthEntry(now, i, txs) ==
    LET monthDate   == subMonths(now, i)
        start       == startOfMonth(monthDate)
        end         == endOfMonth(monthDate)
        filteredTxs == SelectSeq(txs, LAMBDA tx : TRUE)
    IN  [month |-> monthLabel(monthDate), amount |-> sumAbs(filteredTxs)]

MaxExpenseDay == 8      \* expenses are dated up to this many days after FirstDay
MaxMonths == 3          \* getMonthlyExpenseBreakdown is asked for at most this many months

\* The dates of the expenses: the first days of 2024, and a day of February
\* and of March.
ExpenseDates ==
    (FirstDay .. FirstDay + MaxExpenseDay) \cup {NewDate(2024, 1, 10), NewDate(2024, 2, 5)}

Category(id, isActive, sortOrder) ==
    [id |-> id, isActive |-> isActive, sortOrder |-> sortOrder]

CategoryStores ==
    {<<Category("c1", TRUE, 2), Category("c2", TRUE, 1)>>,
     <<Category("c1", TRUE, 1), Category("c2", FALSE, 2)>>}

\* t1 is filed under c1, an outgoing or an incoming amount; t2 under c1 or c2.
ExpenseTransactionStores ==
    {<<Tx("t1", "u1", "expense", a, d1), Tx("t2", "u1", "expense", 0 - 1, d2)>> :
        <<a, d1, d2>> \in {0 - 3, 2} \X ExpenseDates
                          \X {FirstDay + 4, NewDate(2024, 1, 10), NewDate(2024, 2, 5)}}

FiledStores ==
    {<<[transactionId |-> "t1", categoryId |-> "c1"],
       [transactionId |-> "t2", categoryId |-> c]>> : c \in {"c1", "c2"}}

\* The periods asked for: each bound may be missing, and the start is not
\* after the end (getPeriodDates).
PeriodDays == {FirstDay + 4, FirstDay + 6, FirstDay + 8}
Periods ==
    {<<a, b>> \in (PeriodDays \cup {Null}) \X (PeriodDays \cup {Null}) :
        a = Null \/ b = Null \/ a <= b}

\* the days the monthly breakdown is asked for
BreakdownDays == {NewDate(2024, 2, 15), NewDate(2024, 2, 31), NewDate(2024, 0, 31)}

ExpenseCalls ==
    {[fn |-> "getExpenseSummary", pc |-> "start", startDate |-> p[1], endDate |-> p[2],
      categories |-> <<>>, idx |-> 1, ret |-> <<>>] : p \in Periods}
    \cup
    {[fn |-> "getMonthlyExpenseBreakdown", pc |-> "start", categoryId |-> c,
      months |-> n, now |-> Null, i |-> n - 1, ret |-> <<>>] :
        <<c, n>> \in {"c1", "c2"} \X (1..MaxMonths)}

InitExpense ==
    /\ call \in ExpenseCalls
    /\ clock \in (IF call.fn = "getExpenseSummary" THEN {FirstDay + MaxExpenseDay}
                   ELSE BreakdownDays)
    /\ transactions \in ExpenseTransactionStores
    /\ expenseTransactions \in FiledStores
    /\ expenseCategories \in CategoryStores
    /\ script = [pc |-> "none"]
    /\ users = <<>>
    /\ systemState = <<>>
    /\ frames = <<>>
    /\ paymentSchedules = <<>>
    /\ endDate = clock
    /\ startDate = clock
    /\ userId = "none"
    /\ pc = "idle"
    /\ schedules = <<>>
    /\ userTransactions = <<>>
    /\ weeks = <<>>
    /\ idx = 1
    /\ weeklyBreakdown = <<>>
    /\ totalDue = 0
    /\ assignedTransactionIds = {}
    /\ visited = <<>>
    /\ result = Null
    /\ probe = NoProbe

\* part_003 lines 38-44: the category query
ReadCategories ==
    /\ call.fn = "getExpenseSummary"
    /\ call.pc = "start"
    /\ call' = [call EXCEPT !.categories = selectActiveCategories(expenseCategories),
                            !.pc = "loop"]
    /\ UNCHANGED <<calcVars, probe, restVars, users, systemState, frames>>

\* part_003 lines 46-98: the iteration for one category
SummariseCategory ==
    /\ call.fn = "getExpenseSummary"
    /\ call.pc = "loop"
    /\ call.idx <= Len(call.categories)
    /\ LET category   == call.categories[call.idx]
           expenseTxs == joinTransactions(expenseTransactions, transactions, category.id)
       IN  call' = [call EXCEPT
                !.ret = Append(call.ret,
                               categorySummary(category, expenseTxs,
                                               call.startDate, call.endDate)),
                !.idx = call.idx + 1]
    /\ UNCHANGED <<calcVars, probe, restVars, users, systemState, frames>>

\* part_003 line 100
ReturnSummaries ==
    /\ call.fn = "getExpenseSummary"
    /\ call.pc = "loop"
    /\ call.idx > Len(call.categories)
    /\ call' = [call EXCEPT !.pc = "done"]
    /\ UNCHANGED <<calcVars, probe, restVars, users, systemState, frames>>

\* part_003 lines 324-325: results and now
StartBreakdown ==
    /\ call.fn = "getMonthlyExpenseBreakdown"
    /\ call.pc = "start"
    /\ call' = [call EXCEPT !.now = clock, !.pc = "loop"]
    /\ UNCHANGED <<calcVars, probe, restVars, users, systemState, frames>>

\* part_003 lines 327-351: the iteration for one month
BreakdownMonth ==
    /\ call.fn = "getMonthlyExpenseBreakdown"
    /\ call.pc = "loop"
    /\ call.i >= 0
    /\ LET txs == joinTransactions(expenseTransactions, transactions, call.categoryId)
       IN  call' = [call EXCEPT !.ret = Append(call.ret, monthEntry(call.now, call.i, txs)),
                                !.i = call.i - 1]
    /\ UNCHANGED <<calcVars, probe, restVars, users, systemState, frames>>

\* part_003 line 354
ReturnBreakdown ==
    /\ call.fn = "getMonthlyExpenseBreakdown"
    /\ call.pc = "loop"
    /\ call.i < 0
    /\ call' = [call EXCEPT !.pc = "done"]
    /\ UNCHANGED <<calcVars, probe, restVars, users, systemState, frames>>

NextExpense ==
    \/ ReadCategories
    \/ SummariseCategory
    \/ ReturnSummaries
    \/ StartBreakdown
    \/ BreakdownMonth
    \/ ReturnBreakdown

SpecExpense == InitExpense /\ [][NextExpense]_vars

-----------------------------------------------------------------------------
(* Direct calls of the pure helpers                                         *)

MaxProbeDay == 60       \* getDueThursday is called on FirstDay .. FirstDay + MaxProbeDay
MaxProbeSchedules == 2  \* getWeeklyAmount is called on at most this many schedules

\* No calculation is running.
IdleCalc ==
    /\ clock = FirstDay
    /\ endDate = FirstDay
    /\ startDate = FirstDay
    /\ userId = "u1"
    /\ transactions = <<>>
    /\ paymentSchedules = <<>>
    /\ pc = "idle"
    /\ schedules = <<>>
    /\ userTransactions = <<>>
    /\ weeks = <<>>
    /\ idx = 1
    /\ weeklyBreakdown = <<>>
    /\ totalDue = 0
    /\ assignedTransactionIds = {}
    /\ visited = <<>>
    /\ result = Null

ProbeDates == FirstDay .. FirstDay + MaxProbeDay

InitDue ==
    /\ IdleCalc
    /\ NoAggregate
    /\ RestIdle
    /\ \E d \in ProbeDates : probe = [op |-> "getDueThursday", date |-> d, ret |-> Null]

CallGetDueThursday ==
    /\ probe.op = "getDueThursday"
    /\ probe.ret = Null
    /\ probe' = [probe EXCEPT !.ret = getDueThursday(probe.date)]
    /\ UNCHANGED <<calcVars, aggVars, restVars>>

NextDue == CallGetDueThursday

SpecDue == InitDue /\ [][NextDue]_vars

\* The dates of the schedules and the week starts getWeeklyAmount is called on:
\* 2024-01-01 (a Monday), 2024-03-01, 2024-03-04 (a Monday), 2024-03-06 (the
\* Wednesday of that week) and, beyond the stand-in for a missing endDate,
\* 2100-01-04 (a Monday).
ProbeStartDates ==
    {NewDate(2024, 0, 1), NewDate(2024, 2, 1), NewDate(2024, 2, 4), NewDate(2024, 2, 6)}
ProbeEndDates   == {NewDate(2024, 2, 1), NewDate(2024, 2, 4), Null}
ProbeWeekStarts == {NewDate(2024, 0, 1), NewDate(2024, 2, 4), NewDate(2100, 0, 4)}
ProbeAmounts    == {200, 300}

ProbeSchedule ==
    {Schedule("u1", s, e, a) :
        <<s, e, a>> \in ProbeStartDates \X ProbeEndDates \X ProbeAmounts}

ProbeScheduleLists ==
    UNION {[1..n -> ProbeSchedule] : n \in 0..MaxProbeSchedules}

InitAmount ==
    /\ IdleCalc
    /\ NoAggregate
    /\ RestIdle
    /\ \E l \in ProbeScheduleLists, w \in ProbeWeekStarts :
          probe = [op |-> "getWeeklyAmount", schedules |-> l, weekStart |-> w,
                   ret |-> Null]

CallGetWeeklyAmount ==
    /\ probe.op = "getWeeklyAmount"
    /\ probe.ret = Null
    /\ probe' = [probe EXCEPT !.ret = getWeeklyAmount(probe.schedules, probe.weekStart)]
    /\ UNCHANGED <<calcVars, aggVars, restVars>>

NextAmount == CallGetWeeklyAmount

SpecAmount == InitAmount /\ [][NextAmount]_vars

\* utils.ts, isWithinTolerance. The tolerance is a number of halves (0, 0.5,
\* 1, 1.5, ...) and the amounts are whole numbers, so expected * (1 - tolerance)
\* and expected * (1 + tolerance) are exact in floating point; both sides of
\* each comparison are doubled.
isWithinTolerance(actual, expected, toleranceHalves) ==
    LET lower2 == expected * (2 - toleranceHalves)
        upper2 == expected * (2 + toleranceHalves)
    IN  2 * actual >= lower2 /\ 2 * actual <= upper2

MaxProbeAmount == 4         \* isWithinTolerance is called on amounts of at most this size
MaxToleranceHalves == 3     \* and on tolerances of at most this many halves

ToleranceAmounts == (0 - MaxProbeAmount) .. MaxProbeAmount

InitTolerance ==
    /\ IdleCalc
    /\ NoAggregate
    /\ RestIdle
    /\ \E a \in ToleranceAmounts, e \in ToleranceAmounts, t \in 0..MaxToleranceHalves :
          probe = [op |-> "isWithinTolerance", actual |-> a, expected |-> e,
                   toleranceHalves |-> t, returned |-> FALSE, ret |-> FALSE]

CallIsWithinTolerance ==
    /\ probe.op = "isWithinTolerance"
    /\ ~probe.returned
    /\ probe' = [probe EXCEPT
            !.ret = isWithinTolerance(probe.actual, probe.expected, probe.toleranceHalves),
            !.returned = TRUE]
    /\ UNCHANGED <<calcVars, aggVars, restVars>>

NextTolerance == CallIsWithinTolerance

SpecTolerance == InitTolerance /\ [][NextTolerance]_vars

-----------------------------------------------------------------------------
(* scripts/migrate.mjs                                                      *)

\* The errors a step can throw: a SqliteError of better-sqlite3 carries its
\* code itself and has no cause; an error of the migrator that wraps one
\* carries it as its cause; a file-system error has neither.
NoError == [kind |-> "none", code |-> "none", cause |-> "none"]
SqliteError(code) == [kind |-> "SqliteError", code |-> code, cause |-> "none"]
WrappedError(code) == [kind |-> "DrizzleError", code |-> "none", cause |-> code]
FsError == [kind |-> "Error", code |-> "ENOENT", cause |-> "none"]

AllTables == {"__drizzle_migrations", "users", "transactions", "landlords"}
AddedColumns == {"matched_landlord_id", "manual_match"}
MigrationFiles == <<"0000_init.sql", "0001_landlords.sql">>

\* The databases the script is run on: a new file, a database made by
\* `drizzle-kit push` before or after the landlords were added, and a
\* database that migrations made; the transactions table has any of the two
\* later columns.
Databases ==
    {[tables |-> t, columns |-> c] :
        <<t, c>> \in {<<{}, {}>>}
            \cup ({{"users", "transactions"},
                   {"users", "transactions", "landlords"},
                   {"__drizzle_migrations", "users", "transactions"},
                   AllTables} \X SUBSET AddedColumns)}

\* file.replace(".sql", "") of the migration files
hashOf(file) ==
    CASE file = "0000_init.sql" -> "0000_init"
      [] file = "0001_landlords.sql" -> "0001_landlords"

InitMigrate ==
    /\ IdleCalc
    /\ NoAggregate
    /\ probe = NoProbe
    /\ expenseCategories = <<>>
    /\ expenseTransactions = <<>>
    /\ \E db \in Databases, readonly \in BOOLEAN, folderExists \in BOOLEAN :
          script = [pc |-> "start",
                    tables |-> db.tables, columns |-> db.columns,
                    readonly |-> readonly, folderExists |-> folderExists,
                    initialTables |-> db.tables,
                    tracking |-> <<>>, changes |-> {}, wasInitialized |-> FALSE,
                    migrateCalled |-> FALSE,
                    error |-> NoError, rethrow |-> FALSE, closes |-> 0, log |-> <<>>]

\* a step threw: control passes to the catch clause
Throw(state, error) == [state EXCEPT !.error = error, !.pc = "catch"]

\* lines 24-73 called from line 118
initializeMigrationsForPushDatabase(state) ==
    IF "__drizzle_migrations" \in state.tables
    THEN [state EXCEPT !.pc = "apply"]
    ELSE IF "users" \notin state.tables
    THEN [state EXCEPT !.pc = "apply"]
    ELSE IF state.readonly
    THEN Throw(state, SqliteError("SQLITE_READONLY"))
    ELSE LET created == [state EXCEPT
                            !.tables = state.tables \cup {"__drizzle_migrations"},
                            !.changes = state.changes \cup {"__drizzle_migrations"}]
         IN  IF ~state.folderExists
             THEN Throw(created, FsError)
             ELSE [created EXCEPT
                      !.tracking = [i \in 1..Len(MigrationFiles) |->
                                        hashOf(MigrationFiles[i])],
                      !.wasInitialized = TRUE,
                      !.pc = "apply"]

\* lines 102-105 and 110-113: ALTER TABLE transactions ADD COLUMN
addColumn(state, column) ==
    IF state.pc = "catch"
    THEN state
    ELSE IF "transactions" \notin state.tables \/ column \in state.columns
    THEN Throw(state, SqliteError("SQLITE_ERROR"))
    ELSE IF state.readonly
    THEN Throw(state, SqliteError("SQLITE_READONLY"))
    ELSE [state EXCEPT !.columns = state.columns \cup {column},
                       !.changes = state.changes \cup {column}]

\* lines 78-114 called from line 121; txColumns is read once, before the
\* first ALTER TABLE
applyMissingSchemaChanges(state) ==
    LET afterLandlords ==
            IF "landlords" \in state.tables THEN state
            ELSE IF state.readonly THEN Throw(state, SqliteError("SQLITE_READONLY"))
            ELSE [state EXCEPT !.tables = state.tables \cup {"landlords"},
                               !.changes = state.changes \cup {"landlords"}]
        txColumns == IF "transactions" \in state.tables THEN state.columns ELSE {}
        afterFirst ==
            IF "matched_landlord_id" \in txColumns THEN afterLandlords
            ELSE addColumn(afterLandlords, "matched_landlord_id")
        afterSecond ==
            IF "manual_match" \in txColumns THEN afterFirst
            ELSE addColumn(afterFirst, "manual_match")
    IN  IF afterSecond.pc = "catch" THEN afterSecond
        ELSE [afterSecond EXCEPT !.pc = "migrate"]

\* line 118
InitializeMigrations ==
    /\ script.pc = "start"
    /\ script' = initializeMigrationsForPushDatabase(script)
    /\ UNCHANGED <<calcVars, probe, aggVars, expenseCategories, expenseTransactions>>

\* line 121
ApplyMissingSchemaChanges ==
    /\ script.pc = "apply"
    /\ script' = applyMissingSchemaChanges(script)
    /\ UNCHANGED <<calcVars, probe, aggVars, expenseCategories, expenseTransactions>>

\* lines 124-125: the migrator of drizzle-orm applies the migrations, or
\* throws an error that wraps the SqliteError, the SqliteError itself, or a
\* file-system error
RunMigrate ==
    /\ script.pc = "migrate"
    /\ \/ /\ script.folderExists
          /\ ~script.readonly
          /\ script' = [script EXCEPT
                !.migrateCalled = TRUE,
                !.tables = AllTables,
                !.columns = AddedColumns,
                !.tracking = [i \in 1..Len(MigrationFiles) |-> hashOf(MigrationFiles[i])],
                !.log = Append(script.log, "log"),
                !.pc = "finally"]
       \/ \E error \in {WrappedError("SQLITE_ERROR"), SqliteError("SQLITE_ERROR"), FsError} :
             script' = Throw([script EXCEPT !.migrateCalled = TRUE], error)
    /\ UNCHANGED <<calcVars, probe, aggVars, expenseCategories, expenseTransactions>>

\* lines 126-134
Catch ==
    /\ script.pc = "catch"
    /\ IF script.error.cause = "SQLITE_ERROR"
       THEN script' = [script EXCEPT !.log = script.log \o <<"warn", "warn">>,
                                     !.pc = "finally"]
       ELSE script' = [script EXCEPT !.log = Append(script.log, "error"),
                                     !.rethrow = TRUE,
                                     !.pc = "finally"]
    /\ UNCHANGED <<calcVars, probe, aggVars, expenseCategories, expenseTransactions>>

\* lines 135-137: sqlite.close(), then the end of the script or the error
\* rethrown
Finally ==
    /\ script.pc = "finally"
    /\ script' = [script EXCEPT !.closes = script.closes + 1,
                                !.pc = IF script.rethrow THEN "failed" ELSE "ended"]
    /\ UNCHANGED <<calcVars, probe, aggVars, expenseCategories, expenseTransactions>>

NextMigrate ==
    \/ InitializeMigrations
    \/ ApplyMissingSchemaChanges
    \/ RunMigrate
    \/ Catch
    \/ Finally

SpecMigrate == InitMigrate /\ [][NextMigrate]_vars

-----------------------------------------------------------------------------
(* The calendar the properties are stated in, counted from 1970-01-01, a    *)
(* Thursday.                                                                *)

IsThursday(d) == d % 7 = 0
IsMonday(d) == d % 7 = 4
\* 0 = Thursday, 1 = Friday, 2 = Saturday, 3 = Sunday, 4 = Monday, 5 = Tuesday,
\* 6 = Wednesday
DaysSinceThursday(d) == d % 7
\* the Monday of the Monday-aligned week of d
MondayOf(d) == d - ((d + 3) % 7)

DueReturned == probe.op = "getDueThursday" /\ probe.ret # Null
AmountReturned == probe.op = "getWeeklyAmount" /\ probe.ret # Null

-----------------------------------------------------------------------------
(* Properties of getDueThursday (under SpecDue)                             *)

\* C3: getDueThursday(d) is a Thursday; for d on Sunday..Thursday it is the
\* Thursday 4..0 days after d (d itself on a Thursday), for d on Friday or
\* Saturday the Thursday of the following week (6 or 5 days after d); it is the
\* earliest Thursday on or after d, so d <= due <= d + 6.
C3_DueIsEarliestThursdayOnOrAfter ==
    DueReturned =>
        LET d   == probe.date
            due == probe.ret
            wd  == DaysSinceThursday(d)
        IN  /\ IsThursday(due)
            /\ d <= due /\ due <= d + 6
            /\ \A t \in d .. due - 1 : ~IsThursday(t)
            /\ wd = 0 => due = d
            /\ wd = 1 => due = d + 6
            /\ wd = 2 => due = d + 5
            /\ wd = 3 => due = d + 4
            /\ wd = 4 => due = d + 3
            /\ wd = 5 => due = d + 2
            /\ wd = 6 => due = d + 1

\* C3 witness: the due date of a Friday has been computed, six days later.
C3_Witness ==
    /\ DueReturned
    /\ DaysSinceThursday(probe.date) = 1
    /\ probe.ret = probe.date + 6

\* C4 as stated: the due date of d is a Thursday on or after the Monday of d's
\* week and at most 6 days after that Monday.
C4_DueWithinSixDaysOfMonday ==
    DueReturned =>
        /\ IsThursday(probe.ret)
        /\ MondayOf(probe.date) <= probe.ret
        /\ probe.ret <= MondayOf(probe.date) + 6

\* C4 as amended: the due date of d is a Thursday on or after the Monday of d's
\* week and at most 10 days after it: the Thursday of that week (Monday + 3)
\* for d on Monday..Thursday, the Thursday of the next week (Monday + 10) for d
\* on Friday, Saturday or Sunday.
C4_DueWithinTenDaysOfMonday ==
    DueReturned =>
        LET monday == MondayOf(probe.date)
            due    == probe.ret
        IN  /\ IsThursday(due)
            /\ monday <= due /\ due <= monday + 10
            /\ IF probe.date <= monday + 3
               THEN due = monday + 3
               ELSE due = monday + 10

\* C4 witness: the due date of a Sunday has been computed; it is 10 days after
\* the Monday of the Sunday's week.
C4_Witness ==
    /\ DueReturned
    /\ DaysSinceThursday(probe.date) = 3
    /\ probe.ret = MondayOf(probe.date) + 10

-----------------------------------------------------------------------------
(* Properties of getWeeklyAmount (under SpecAmount)                         *)

\* startDate <= w <= endDate, a missing endDate standing for 2100-01-01
CoversEndInclusive(s, w) ==
    /\ s.startDate <= w
    /\ w <= (IF s.endDate = Null THEN NewDate(2100, 0, 1) ELSE s.endDate)

\* startDate <= w < endDate, a missing endDate meaning no upper bound
CoversEndExclusive(s, w) ==
    /\ s.startDate <= w
    /\ (s.endDate = Null \/ w < s.endDate)

\* C5: getWeeklyAmount returns the weeklyAmount of a schedule with the latest
\* startDate among the schedules covering the week start, and 0 when none
\* covers it; schedules from 2024-01-01 at 200 and from 2024-03-01 at 300, both
\* open-ended, give 300 for the week of 2024-03-04.
C5_LatestStartWins ==
    AmountReturned =>
        LET l == probe.schedules
            w == probe.weekStart
            covering == {i \in 1..Len(l) : CoversEndInclusive(l[i], w)}
        IN  /\ covering = {} => probe.ret = 0
            /\ covering # {} =>
                 \E i \in covering :
                    /\ \A j \in covering : l[j].startDate <= l[i].startDate
                    /\ probe.ret = l[i].weeklyAmount
            /\ ( /\ l = <<Schedule("u1", NewDate(2024, 0, 1), Null, 200),
                          Schedule("u1", NewDate(2024, 2, 1), Null, 300)>>
                 /\ w = NewDate(2024, 2, 4) ) => probe.ret = 300

\* C5 witness: the scenario of the two overlapping schedules has been resolved.
C5_Witness ==
    /\ AmountReturned
    /\ probe.schedules = <<Schedule("u1", NewDate(2024, 0, 1), Null, 200),
                           Schedule("u1", NewDate(2024, 2, 1), Null, 300)>>
    /\ probe.weekStart = NewDate(2024, 2, 4)
    /\ probe.ret = 300

\* C6 as stated: a schedule applies to the week start w exactly when
\* startDate <= w < endDate, a missing endDate meaning no upper bound; the
\* amounts being positive, a week has a non-zero amount exactly when some
\* schedule applies to it.
C6_AppliesEndExclusive ==
    AmountReturned =>
        ( probe.ret # 0 <=>
            \E i \in 1..Len(probe.schedules) :
                CoversEndExclusive(probe.schedules[i], probe.weekStart) )

\* C6 as amended: a schedule applies to the week start w exactly when
\* startDate <= w <= endDate (end inclusive), a missing endDate standing for
\* 2100-01-01; a single schedule gives its amount to exactly the weeks it
\* applies to, and several give a non-zero amount exactly when one applies.
C6_AppliesEndInclusive ==
    AmountReturned =>
        LET l == probe.schedules
            w == probe.weekStart
        IN  /\ probe.ret # 0 <=> \E i \in 1..Len(l) : CoversEndInclusive(l[i], w)
            /\ Len(l) = 1 =>
                 probe.ret = IF CoversEndInclusive(l[1], w)
                             THEN l[1].weeklyAmount ELSE 0

\* C6 witness: a single schedule whose endDate is the week start has given its
\* amount to that week.
C6_Witness ==
    /\ AmountReturned
    /\ Len(probe.schedules) = 1
    /\ probe.schedules[1].endDate = probe.weekStart
    /\ probe.schedules[1].startDate <= probe.weekStart
    /\ probe.ret = probe.schedules[1].weeklyAmount

-----------------------------------------------------------------------------
(* Properties of calculateFlatmateBalance (under Spec)                      *)

Rows == {transactions[i] : i \in 1..Len(transactions)}
RowOf(id) == CHOOSE tx \in Rows : tx.id = id

Entries == 1..Len(weeklyBreakdown)
\* the ids listed in a weeklyBreakdown entry
Listed(e) == {e.paymentTransactions[i].id : i \in 1..Len(e.paymentTransactions)}

\* a rent payment of the flatmate dated in the analysis window
Qualifying(tx) ==
    /\ tx.matchedUserId = userId
    /\ tx.matchType = "rent_payment"
    /\ tx.amount > 0
    /\ startDate <= tx.date /\ tx.date <= endDate

\* the date lies in the payment window of the week with that due date
InWindow(date, dueDate) == dueDate - 7 <= date /\ date <= dueDate + 3

RECURSIVE SumOver(_, _)
\* the sum of amount[x] over the elements x of a finite set
SumOver(S, amount) ==
    IF S = {} THEN 0
    ELSE LET x == CHOOSE y \in S : TRUE
         IN  amount[x] + SumOver(S \ {x}, amount)

AmountOfRow == [id \in {tx.id : tx \in Rows} |-> RowOf(id).amount]
AmountDueOfEntry == [k \in Entries |-> weeklyBreakdown[k].amountDue]

\* C1: every transaction id appears in the paymentTransactions of at most one
\* weeklyBreakdown entry, and at most once in it.
C1_AssignedToAtMostOneWeek ==
    /\ \A i, j \in Entries :
          i # j => Listed(weeklyBreakdown[i]) \cap Listed(weeklyBreakdown[j]) = {}
    /\ \A i \in Entries :
          Cardinality(Listed(weeklyBreakdown[i])) = Len(weeklyBreakdown[i].paymentTransactions)
    /\ pc = "done" => result.weeklyBreakdown = weeklyBreakdown

\* C1 witness: two weeks are in the breakdown and a payment dated in the
\* windows of both is listed in the first.
C1_Witness ==
    /\ Len(weeklyBreakdown) = 2
    /\ \E tx \in Rows :
          /\ InWindow(tx.date, weeklyBreakdown[1].dueDate)
          /\ InWindow(tx.date, weeklyBreakdown[2].dueDate)
          /\ tx.id \in Listed(weeklyBreakdown[1])

\* C2: the weeks of the breakdown are in increasing week-start order (and so
\* are the weeks the loop has visited, when the window is not empty), and a
\* qualifying transaction dated in the payment windows of several of them is
\* listed in the earliest of those weeks and in no other.
C2_FirstWeekWins ==
    /\ \A i, j \in Entries :
          i < j => weeklyBreakdown[i].weekStart < weeklyBreakdown[j].weekStart
    /\ startDate <= endDate =>
          \A i, j \in 1..Len(visited) :
              i < j => visited[i].weekStart < visited[j].weekStart
    /\ \A tx \in Rows :
          LET claiming == {k \in Entries : InWindow(tx.date, weeklyBreakdown[k].dueDate)}
          IN  (Qualifying(tx) /\ claiming # {}) =>
                \A k \in Entries :
                    tx.id \in Listed(weeklyBreakdown[k])
                        <=> (k \in claiming /\ \A m \in claiming : k <= m)

\* C2 witness: the calculation is done, and both payments, dated in the
\* windows of both weeks of the breakdown, are listed in the first.
C2_Witness ==
    /\ pc = "done"
    /\ Len(weeklyBreakdown) = 2
    /\ Listed(weeklyBreakdown[1]) = {"t1", "t2"}
    /\ \A tx \in Rows : InWindow(tx.date, weeklyBreakdown[2].dueDate)

\* C7: every entry of the breakdown has a due date that is not after the time
\* read when its week was visited (nor after the clock since); every visited
\* week whose Thursday is not after that time has exactly one entry, also when
\* nothing is due for it, and a week whose Thursday is after it has none;
\* totalDue is the sum of the entries' amountDue.
C7_FutureWeeksSkipped ==
    /\ \A k \in Entries :
          /\ weeklyBreakdown[k].dueDate = weeklyBreakdown[k].weekStart + 3
          /\ weeklyBreakdown[k].dueDate <= clock
    /\ \A v \in 1..Len(visited) :
          LET entries == {k \in Entries : weeklyBreakdown[k].weekStart = visited[v].weekStart}
          IN  IF visited[v].weekStart + 3 <= visited[v].now
              THEN Cardinality(entries) = 1
              ELSE entries = {}
    /\ totalDue = SumOver(Entries, AmountDueOfEntry)
    /\ pc = "done" =>
          /\ Len(visited) = Len(weeks)
          /\ result.weeklyBreakdown = weeklyBreakdown
          /\ result.totalDue = SumOver(Entries, AmountDueOfEntry)

\* C7 witness: the calculation is done with a week for which nothing was due in
\* the breakdown and a visited week, not yet due, left out of it.
C7_Witness ==
    /\ pc = "done"
    /\ \E k \in Entries : weeklyBreakdown[k].amountDue = 0
    /\ \E k \in Entries : weeklyBreakdown[k].amountDue > 0
    /\ \E v \in 1..Len(visited) :
          /\ visited[v].weekStart + 3 > visited[v].now
          /\ \A k \in Entries : weeklyBreakdown[k].weekStart # visited[v].weekStart

\* C8: the weeks enumerated for a window with startDate <= endDate start on
\* Mondays, 7 days apart, in increasing order, from the week that holds
\* startDate to the week that holds endDate; the breakdown is in strictly
\* increasing weekStart order.
C8_WeeksAreConsecutiveMondays ==
    /\ (pc \in {"loop", "done"} /\ startDate <= endDate) =>
          /\ Len(weeks) >= 1
          /\ \A i \in 1..Len(weeks) : IsMonday(weeks[i])
          /\ \A i \in 1..Len(weeks) - 1 : weeks[i + 1] = weeks[i] + 7
          /\ weeks[1] <= startDate /\ startDate <= weeks[1] + 6
          /\ weeks[Len(weeks)] <= endDate /\ endDate <= weeks[Len(weeks)] + 6
    /\ \A k \in 1..Len(weeklyBreakdown) - 1 :
          weeklyBreakdown[k].weekStart < weeklyBreakdown[k + 1].weekStart

\* C8 witness: three weeks were enumerated for a window that starts on a
\* Wednesday, and two of them are in the breakdown.
C8_Witness ==
    /\ pc = "done"
    /\ Len(weeks) = 3
    /\ startDate = weeks[1] + 2
    /\ Len(weeklyBreakdown) = 2

\* C9: every transaction listed in a week is a stored transaction matched to
\* the flatmate and dated in [dueDate - 7, dueDate + 3]; the week's amountPaid
\* is the sum of the listed transactions' amounts and its balance is
\* amountPaid - amountDue.
C9_WeekPaymentsInWindow ==
    \A k \in Entries :
        LET e == weeklyBreakdown[k]
        IN  /\ \A i \in 1..Len(e.paymentTransactions) :
                  LET p == e.paymentTransactions[i]
                  IN  /\ \E tx \in Rows : tx.id = p.id
                      /\ RowOf(p.id).matchedUserId = userId
                      /\ RowOf(p.id).date = p.date
                      /\ RowOf(p.id).amount = p.amount
                      /\ e.dueDate - 7 <= p.date
                      /\ p.date <= e.dueDate + 3
            /\ e.amountPaid = SumOver(Listed(e), AmountOfRow)
            /\ e.balance = e.amountPaid - e.amountDue

\* C9 witness: a week of the breakdown lists both payments, one dated on its
\* Monday and one on the last day of its window, and amountPaid is their sum.
C9_Witness ==
    \E k \in Entries :
        LET e == weeklyBreakdown[k]
        IN  /\ Listed(e) = {"t1", "t2"}
            /\ RowOf("t1").date = e.weekStart
            /\ RowOf("t2").date = e.dueDate + 3
            /\ e.amountPaid = Rate + 1

\* C10: when the flatmate has one open-ended schedule of rate R that covers
\* week N and a single qualifying payment, of amount R and dated on the
\* Thursday of week N, the breakdown entry of week N has amountPaid = R and
\* balance = 0, and no other week lists the payment.
C10_PaymentOnDueDatePaysThatWeek ==
    \A k \in Entries :
        LET e    == weeklyBreakdown[k]
            mine == {i \in 1..Len(paymentSchedules) : paymentSchedules[i].userId = userId}
            paid == {tx \in Rows : Qualifying(tx)}
        IN  ( /\ Cardinality(mine) = 1
              /\ \A i \in mine :
                    /\ paymentSchedules[i].endDate = Null
                    /\ paymentSchedules[i].startDate <= e.weekStart
              /\ Cardinality(paid) = 1
              /\ \A tx \in paid :
                    /\ tx.date = e.weekStart + 3
                    /\ \A i \in mine : tx.amount = paymentSchedules[i].weeklyAmount )
            => /\ \A i \in mine : e.amountPaid = paymentSchedules[i].weeklyAmount
               /\ e.balance = 0
               /\ \A j \in Entries : j # k => weeklyBreakdown[j].amountPaid = 0

\* C10 witness: the calculation is done; the single qualifying payment, of the
\* rate and dated on the Thursday of the second week, pays that week in full
\* and the week before it got nothing.
C10_Witness ==
    /\ pc = "done"
    /\ Len(weeklyBreakdown) = 2
    /\ {tx.id : tx \in {r \in Rows : Qualifying(r)}} = {"t1"}
    /\ RowOf("t1").date = weeklyBreakdown[2].weekStart + 3
    /\ weeklyBreakdown[1].amountDue = Rate
    /\ weeklyBreakdown[1].amountPaid = 0
    /\ weeklyBreakdown[2].amountPaid = Rate
    /\ weeklyBreakdown[2].balance = 0

\* the ids of the rent payments of the flatmate dated in the analysis window
QualifyingIds == {tx.id : tx \in {r \in Rows : Qualifying(r)}}
\* the ids listed in some week of the breakdown
ListedIds == UNION {Listed(weeklyBreakdown[k]) : k \in Entries}
AmountPaidOfEntry == [k \in Entries |-> weeklyBreakdown[k].amountPaid]

\* C11: in the FlatmateBalance returned, totalDue is the sum of amountDue over
\* the weeklyBreakdown, totalPaid is the sum of the amounts of all the user's
\* qualifying transactions dated in [startDate, endDate], whatever week they
\* were assigned to, and balance = totalPaid - totalDue.
C11_TotalsOfTheBalance ==
    pc = "done" =>
        /\ result.weeklyBreakdown = weeklyBreakdown
        /\ result.totalDue = SumOver(Entries, AmountDueOfEntry)
        /\ result.totalPaid = SumOver(QualifyingIds, AmountOfRow)
        /\ result.balance = result.totalPaid - result.totalDue

\* C11 witness: a balance was returned with something due, with one payment
\* listed in a week and one in none, and both are in totalPaid.
C11_Witness ==
    /\ pc = "done"
    /\ result.totalDue > 0
    /\ QualifyingIds = {"t1", "t2"}
    /\ ListedIds = {"t1"}
    /\ result.totalPaid = Rate + 1
    /\ result.balance # 0

\* C12: a qualifying transaction dated in no processed week's payment window
\* is listed in no weeklyBreakdown entry and is still part of totalPaid: the
\* sum of the weekly amountPaid is at most totalPaid and falls short of it by
\* exactly the amounts of the qualifying transactions that no week lists.
C12_UnassignedCountInTotalPaid ==
    /\ \A tx \in Rows :
          (Qualifying(tx) /\ \A k \in Entries : ~InWindow(tx.date, weeklyBreakdown[k].dueDate))
              => tx.id \notin ListedIds
    /\ pc = "done" =>
          /\ ListedIds \subseteq QualifyingIds
          /\ SumOver(Entries, AmountPaidOfEntry) <= result.totalPaid
          /\ result.totalPaid - SumOver(Entries, AmountPaidOfEntry)
                = SumOver(QualifyingIds \ ListedIds, AmountOfRow)

\* C12 witness: a balance was returned in which a payment dated more than 3
\* days after the last processed due date is in totalPaid and in no week.
C12_Witness ==
    /\ pc = "done"
    /\ Len(weeklyBreakdown) >= 1
    /\ "t1" \in QualifyingIds
    /\ RowOf("t1").date > weeklyBreakdown[Len(weeklyBreakdown)].dueDate + 3
    /\ "t1" \notin ListedIds
    /\ result.totalPaid - SumOver(Entries, AmountPaidOfEntry) >= Rate

\* C13: with the analysis start date S = startDate, not after endDate, no
\* transaction dated before S is part of totalPaid or of a week, and no week
\* whose due date is before S is in the weeklyBreakdown or part of totalDue.
C13_NothingBeforeAnalysisStart ==
    startDate <= endDate =>
    /\ \A k \in Entries :
          /\ weeklyBreakdown[k].dueDate >= startDate
          /\ \A id \in Listed(weeklyBreakdown[k]) : RowOf(id).date >= startDate
    /\ pc = "done" =>
          /\ result.totalPaid =
                SumOver({tx.id : tx \in {r \in Rows : Qualifying(r) /\ r.date >= startDate}},
                        AmountOfRow)
          /\ result.totalDue =
                SumOver({k \in Entries : weeklyBreakdown[k].dueDate >= startDate},
                        AmountDueOfEntry)

-----------------------------------------------------------------------------
(* Properties of the transaction filter (under SpecFilter)                  *)

\* the store row counts as rent income of the flatmate
CountsAsRentIncome(tx) ==
    /\ tx.matchedUserId = userId
    /\ tx.matchType = "rent_payment"
    /\ tx.amount > 0

FetchedIds == {userTransactions[i].id : i \in 1..Len(userTransactions)}

\* C14: only rows matched to the user, with matchType exactly "rent_payment"
\* (isRentPayment) and a strictly positive amount are fetched, listed in a
\* week or summed: each weekly amountPaid and totalPaid are sums over such
\* rows only, so rows of any other kind change no balance.
C14_OnlyPositiveRentPaymentsCount ==
    /\ \A i \in 1..Len(userTransactions) :
          /\ userTransactions[i] \in Rows
          /\ CountsAsRentIncome(userTransactions[i])
          /\ isRentPayment(userTransactions[i].matchType)
    /\ \A tx \in Rows : isRentPayment(tx.matchType) <=> tx.matchType = "rent_payment"
    /\ \A k \in Entries :
          /\ \A id \in Listed(weeklyBreakdown[k]) : CountsAsRentIncome(RowOf(id))
          /\ weeklyBreakdown[k].amountPaid = SumOver(Listed(weeklyBreakdown[k]), AmountOfRow)
    /\ pc = "done" =>
          /\ result.totalPaid =
                SumOver({id \in QualifyingIds : CountsAsRentIncome(RowOf(id))}, AmountOfRow)
          /\ result.balance =
                SumOver({id \in QualifyingIds : CountsAsRentIncome(RowOf(id))}, AmountOfRow)
                    - SumOver(Entries, AmountDueOfEntry)

\* C14 witness: a balance was returned over a store in which t1 is matched to
\* the flatmate, dated in a processed week's window and negative, and t2 is
\* the flatmate's rent payment: only t2 is listed and paid.
C14_Witness ==
    /\ pc = "done"
    /\ RowOf("t1").matchedUserId = userId
    /\ RowOf("t1").matchType = "rent_payment"
    /\ RowOf("t1").amount < 0
    /\ \E k \in Entries : InWindow(RowOf("t1").date, weeklyBreakdown[k].dueDate)
    /\ ListedIds = {"t2"}
    /\ result.totalPaid = 1

\* C18: when no transaction of the store qualifies for the user in the
\* analysis window, every weekly amountPaid is 0 and no week lists a payment,
\* and the balance returned has totalPaid = 0 and balance = -totalDue.
C18_NoQualifyingTransaction ==
    (\A tx \in Rows : ~Qualifying(tx)) =>
        /\ userTransactions = <<>>
        /\ \A k \in Entries :
              /\ weeklyBreakdown[k].amountPaid = 0
              /\ weeklyBreakdown[k].paymentTransactions = <<>>
              /\ weeklyBreakdown[k].balance = 0 - weeklyBreakdown[k].amountDue
        /\ pc = "done" =>
              /\ result.totalPaid = 0
              /\ result.balance = 0 - result.totalDue

\* C18 witness: a balance was returned for a store in which the flatmate has
\* a positive expense share and no rent payment; two weeks are owed in full.
C18_Witness ==
    /\ pc = "done"
    /\ \A tx \in Rows : ~Qualifying(tx)
    /\ \E tx \in Rows : /\ tx.matchedUserId = userId
                        /\ tx.amount > 0
                        /\ tx.matchType = "expense"
                        /\ startDate <= tx.date /\ tx.date <= endDate
    /\ Len(weeklyBreakdown) = 2
    /\ result.totalDue = 2 * Rate
    /\ result.totalPaid = 0
    /\ result.balance = 0 - 2 * Rate

-----------------------------------------------------------------------------
(* Properties of calculateAllBalances and calculateUserBalance (under       *)
(* SpecAll)                                                                 *)

StoredIds == {users[i].id : i \in 1..Len(users)}

SummaryReturned == call.fn = "calculateAllBalances" /\ call.pc = "done"

\* the week starts of a FlatmateBalance
WeekStartsOf(b) == {b.weeklyBreakdown[k].weekStart : k \in 1..Len(b.weeklyBreakdown)}
\* the transaction ids a FlatmateBalance lists
ListedIn(b) == UNION {Listed(b.weeklyBreakdown[k]) : k \in 1..Len(b.weeklyBreakdown)}

\* C15: the summary calculateAllBalances returns holds one FlatmateBalance per
\* row of the user store, in stored order, administrators included, and its
\* totalDue, totalPaid and totalBalance are the sums of the per-user totalDue,
\* totalPaid and balance, so that totalBalance = totalPaid - totalDue.
C15_SummaryCoversEveryUser ==
    SummaryReturned =>
        LET b == call.ret.flatmates
            n == Len(b)
        IN  /\ n = Len(users)
            /\ \A i \in 1..n : b[i].userId = users[i].id
            /\ call.ret.totalDue = SumOver(1..n, [i \in 1..n |-> b[i].totalDue])
            /\ call.ret.totalPaid = SumOver(1..n, [i \in 1..n |-> b[i].totalPaid])
            /\ call.ret.totalBalance = SumOver(1..n, [i \in 1..n |-> b[i].balance])
            /\ call.ret.totalBalance = call.ret.totalPaid - call.ret.totalDue

\* C15 witness: a summary was returned for an administrator and a flatmate
\* who both owe and both paid.
C15_Witness ==
    /\ SummaryReturned
    /\ Len(users) = 2
    /\ users[1].role = "admin"
    /\ \A i \in 1..2 : /\ call.ret.flatmates[i].totalDue > 0
                        /\ call.ret.flatmates[i].totalPaid > 0
    /\ call.ret.totalPaid = Rate + 1
    /\ call.ret.totalBalance # 0

\* C16: calculateUserBalance for a user id that is not in the user store
\* returns null and nothing is read or computed for it; no calculation is
\* ever dispatched for an id outside the user store, and the summary of
\* calculateAllBalances holds only stored users, lists only their
\* transactions, charges only their schedules and totals only their payments.
C16_MissingUserYieldsNothing ==
    /\ (call.fn = "calculateUserBalance" /\ call.userId \notin StoredIds) =>
          /\ call.pc \in {"start", "done"}
          /\ DOMAIN frames = {}
          /\ call.configuredStartDate = Null
          /\ call.calcStartDate = Null
          /\ call.endDate = Null
          /\ clock = call.calledAt
          /\ call.pc = "done" => call.returned = "null"
    /\ (call.fn = "calculateUserBalance" /\ call.userId \in StoredIds /\ call.pc = "done") =>
          /\ call.returned = "value"
          /\ call.ret.userId = call.userId
    /\ DOMAIN frames \subseteq StoredIds
    /\ SummaryReturned =>
          LET b == call.ret.flatmates
          IN  /\ \A i \in 1..Len(b) :
                    /\ b[i].userId \in StoredIds
                    /\ \A id \in ListedIn(b[i]) : RowOf(id).matchedUserId = b[i].userId
                    /\ \A k \in 1..Len(b[i].weeklyBreakdown) :
                          \/ b[i].weeklyBreakdown[k].amountDue = 0
                          \/ \E j \in 1..Len(paymentSchedules) :
                                /\ paymentSchedules[j].userId = b[i].userId
                                /\ paymentSchedules[j].weeklyAmount
                                      = b[i].weeklyBreakdown[k].amountDue
              /\ call.ret.totalPaid =
                    SumOver({tx.id : tx \in {r \in Rows :
                                /\ r.matchedUserId \in StoredIds
                                /\ r.matchType = "rent_payment"
                                /\ r.amount > 0
                                /\ call.calcStartDate <= r.date
                                /\ r.date <= call.endDate}},
                            AmountOfRow)

\* C16 witness: calculateUserBalance returned null for u2, who is in no row
\* of the user store although a schedule and a rent payment name u2.
C16_Witness ==
    /\ call.fn = "calculateUserBalance"
    /\ call.userId = "u2"
    /\ "u2" \notin StoredIds
    /\ \E j \in 1..Len(paymentSchedules) : paymentSchedules[j].userId = "u2"
    /\ \E tx \in Rows : tx.matchedUserId = "u2" /\ tx.matchType = "rent_payment"
    /\ call.pc = "done"
    /\ call.returned = "null"

\* the day the settings store configures as the analysis start date, if it
\* holds one that is a date (days since 1970-01-01)
ConfiguredDay ==
    LET rows == {i \in 1..Len(systemState) : systemState[i].key = "analysis_start_date"}
    IN  IF rows = {} THEN Null
        ELSE LET first == CHOOSE i \in rows : \A j \in rows : i <= j
                 value == systemState[first].value
             IN  IF value = "2024-01-01" THEN 19723
                 ELSE IF value = "2024-01-05" THEN 19727
                 ELSE Null

\* C17: once the window is set, its start is the startDate argument if one
\* was passed, otherwise the configured analysis start date if the settings
\* hold one that is a date, otherwise 180 days before a reading of the clock
\* taken during the call; and with no argument and no valid configured date
\* the call never fails.
C17_StartOfTheAnalysisWindow ==
    /\ (call.fn \in {"calculateAllBalances", "calculateUserBalance"}
            /\ call.pc \in {"users", "await", "done", "threw"}
            /\ call.returned # "null") =>
          IF call.startDate # Null THEN call.calcStartDate = call.startDate
          ELSE IF ConfiguredDay # Null THEN call.calcStartDate = ConfiguredDay
          ELSE /\ call.calcStartDate \in {t - 180 : t \in call.calledAt .. call.endDate}
               /\ call.pc # "threw"
               /\ \A u \in DOMAIN frames : frames[u].pc # "threw"
    /\ (call.fn \in {"calculateAllBalances", "calculateUserBalance"}
            /\ call.pc \in {"start", "config"}) => call.calcStartDate = Null

\* C17 witness: a summary was returned for a call without argument over
\* settings whose analysis_start_date is no date: the window starts 180 days
\* before the call.
C17_Witness ==
    /\ SummaryReturned
    /\ call.startDate = Null
    /\ Len(systemState) = 1
    /\ systemState[1].key = "analysis_start_date"
    /\ systemState[1].value = "not a date"
    /\ call.calcStartDate = call.calledAt - 180
    /\ call.ret.totalDue > 0

\* C19: in a summary of calculateAllBalances every FlatmateBalance lists only
\* transactions of its own user, and all of them are evaluated over the same
\* set of processed weeks, whatever the interleaving of the calculations.
C19_SameWeeksForEveryUser ==
    SummaryReturned =>
        LET b == call.ret.flatmates
        IN  /\ \A i \in 1..Len(b) :
                  \A id \in ListedIn(b[i]) : RowOf(id).matchedUserId = b[i].userId
            /\ \A i, j \in 1..Len(b) : WeekStartsOf(b[i]) = WeekStartsOf(b[j])

-----------------------------------------------------------------------------
(* Properties of getCurrentWeekSummary (under SpecSummary)                  *)

\* C20: in the summary returned, a flatmate for whom nothing is due and who
\* paid nothing in the current week has the status "paid".
C20_NothingDueNothingPaidIsPaid ==
    (call.fn = "getCurrentWeekSummary" /\ call.pc = "done") =>
        \A i \in 1..Len(call.ret) :
            (call.ret[i].amountDue = 0 /\ call.ret[i].amountPaid = 0)
                => call.ret[i].status = "paid"

-----------------------------------------------------------------------------
(* Properties that relate getCurrentWeekSummary to the weeklyBreakdown      *)
(* (under SpecCompare)                                                      *)

\* the flatmate's row of the summary is computed
SummaryRowComputed == userId \in DOMAIN frames /\ frames[userId].pc = "done"

\* a rent payment of the flatmate in the window of entry k that another
\* week lists or that is dated before the analysis start date
TakenFromWeek(k) ==
    {tx \in Rows :
        /\ CountsAsRentIncome(tx)
        /\ InWindow(tx.date, weeklyBreakdown[k].dueDate)
        /\ \/ tx.date < startDate
           \/ \E j \in Entries : j # k /\ tx.id \in Listed(weeklyBreakdown[j])}

\* C21: when the weeklyBreakdown has an entry for the current week W (the
\* week of the Monday on or before the summary's now), the summary row of the
\* flatmate has the entry's amountDue and an amountPaid that is at least the
\* entry's; if a qualifying payment in W's window was assigned to another week
\* or is dated before the analysis start date, it is strictly greater.
C21_SummaryAgainstBreakdown ==
    (SummaryRowComputed /\ startDate <= endDate) =>
        /\ call.weekStart = MondayOf(call.now)
        /\ \A k \in Entries :
              weeklyBreakdown[k].weekStart = call.weekStart =>
                /\ frames[userId].row.amountDue = weeklyBreakdown[k].amountDue
                /\ frames[userId].row.amountPaid >= weeklyBreakdown[k].amountPaid
                /\ frames[userId].row.amountPaid = weeklyBreakdown[k].amountPaid
                      => TakenFromWeek(k) = {}

\* C21 witness: the calculation and the summary are both done, the second
\* entry is the current week, and t1, dated in the windows of both weeks, is
\* listed in the first: the summary reports Rate more than the entry.
C21_Witness ==
    /\ pc = "done"
    /\ call.pc = "done"
    /\ SummaryRowComputed
    /\ startDate <= endDate
    /\ Len(weeklyBreakdown) = 2
    /\ weeklyBreakdown[2].weekStart = call.weekStart
    /\ weeklyBreakdown[2].amountDue = Rate
    /\ "t1" \in Listed(weeklyBreakdown[1])
    /\ InWindow(RowOf("t1").date, weeklyBreakdown[2].dueDate)
    /\ call.ret[1].amountPaid = weeklyBreakdown[2].amountPaid + Rate

-----------------------------------------------------------------------------
(* Coverage of the payment windows (under Spec)                             *)

\* the latest due date of the weeks processed so far
LastProcessedDue ==
    CHOOSE d \in {weeklyBreakdown[k].dueDate : k \in Entries} :
        \A k \in Entries : weeklyBreakdown[k].dueDate <= d

\* the entries that list the transaction
EntriesListing(id) == {k \in Entries : id \in Listed(weeklyBreakdown[k])}

\* C22: once a week is processed, every qualifying transaction dated from the
\* analysis start date to 3 days after the last processed due date is listed
\* in exactly one weeklyBreakdown entry.
C22_NoGapBetweenWindows ==
    Entries # {} =>
        \A tx \in Rows :
            (Qualifying(tx) /\ tx.date <= LastProcessedDue + 3)
                => Cardinality(EntriesListing(tx.id)) = 1

\* C22 witness: two weeks are processed and t1, dated 4 days after the first
\* due date, the first day past the first window, is listed in the second.
C22_Witness ==
    /\ pc = "done"
    /\ Len(weeklyBreakdown) = 2
    /\ Qualifying(RowOf("t1"))
    /\ RowOf("t1").date = weeklyBreakdown[1].dueDate + 4
    /\ EntriesListing("t1") = {2}
    /\ Qualifying(RowOf("t2"))
    /\ EntriesListing("t2") = {1}

-----------------------------------------------------------------------------
(* The schedule of a week (under SpecAmount)                                *)

\* C23: the amount of a week is decided by the schedules covering its Monday
\* start w alone: it is 0 when none covers w, and otherwise the weeklyAmount
\* of the first schedule, in stored order, among the covering ones with the
\* latest startDate; a schedule that starts after w, were it on or before the
\* Thursday of the week, is never the one used.
C23_AmountFromSchedulesCoveringMonday ==
    AmountReturned =>
        LET l == probe.schedules
            w == probe.weekStart
            covering == {i \in 1..Len(l) : CoversEndInclusive(l[i], w)}
            latest   == {i \in covering : \A j \in covering : l[j].startDate <= l[i].startDate}
        IN  /\ IsMonday(w)
            /\ \A i \in 1..Len(l) : l[i].startDate > w => i \notin covering
            /\ IF covering = {}
               THEN probe.ret = 0
               ELSE LET first == CHOOSE i \in latest : \A j \in latest : i <= j
                    IN  probe.ret = l[first].weeklyAmount

\* C23 witness: for the week of Monday 2024-03-04 a schedule that starts on
\* the Wednesday, stored first, is passed over for the one that started on
\* 2024-03-01.
C23_Witness ==
    /\ AmountReturned
    /\ probe.weekStart = 19786
    /\ Len(probe.schedules) = 2
    /\ probe.schedules[1].startDate = 19788
    /\ probe.schedules[1].endDate = Null
    /\ probe.schedules[1].weeklyAmount = 300
    /\ probe.schedules[2].startDate = 19783
    /\ probe.schedules[2].weeklyAmount = 200
    /\ CoversEndInclusive(probe.schedules[2], probe.weekStart)
    /\ probe.ret = 200

-----------------------------------------------------------------------------
(* Properties of isWithinTolerance (under SpecTolerance)                    *)

Abs(x) == IF x < 0 THEN 0 - x ELSE x

\* C24: isWithinTolerance(actual, expected, t) is true exactly when
\* |actual - expected| <= t * |expected|, for amounts of either sign (with t
\* counted in halves, 2 * |actual - expected| <= halves * |expected|).
C24_WithinToleranceIsRelativeDistance ==
    (probe.op = "isWithinTolerance" /\ probe.returned) =>
        ( probe.ret <=>
            2 * Abs(probe.actual - probe.expected)
                <= probe.toleranceHalves * Abs(probe.expected) )

-----------------------------------------------------------------------------
(* Properties of the expense reports (under SpecExpense)                    *)

\* the ids of the transactions filed under a category
FiledUnder(categoryId) ==
    {expenseTransactions[i].transactionId :
        i \in {j \in 1..Len(expenseTransactions) :
                  expenseTransactions[j].categoryId = categoryId}}

AbsAmountOfRow == [id \in {tx.id : tx \in Rows} |-> Abs(RowOf(id).amount)]

\* the sum of |amount| of the category's transactions dated from lo to hi,
\* a missing bound (Null) leaving that side open
SpentBetween(categoryId, lo, hi) ==
    SumOver({id \in FiledUnder(categoryId) :
                /\ (lo = Null \/ RowOf(id).date >= lo)
                /\ (hi = Null \/ RowOf(id).date <= hi)},
            AbsAmountOfRow)

\* C25: in every summary of getExpenseSummary, totalAmount is the sum of
\* |amount| of the category's transactions dated in [startDate, endDate];
\* trend is set exactly when both dates are given and the total of the
\* previous period is > 0, and is then (current - previous) / previous * 100,
\* the previous period being the days startDate - n .. startDate - 1 for a
\* current period of n days, so that no transaction is in both periods
\* (stated for the periods of more than one day).
C25_TotalAndTrendOfACategory ==
    (call.fn = "getExpenseSummary"
        /\ (call.startDate = Null \/ call.endDate = Null \/ call.startDate < call.endDate)) =>
        \A k \in 1..Len(call.ret) :
            LET e        == call.ret[k]
                current  == SpentBetween(e.category.id, call.startDate, call.endDate)
                n        == call.endDate - call.startDate + 1
                previous == SpentBetween(e.category.id, call.startDate - n, call.startDate - 1)
            IN  /\ e.totalAmount = current
                /\ Len(e.trend) = 1 <=>
                      (call.startDate # Null /\ call.endDate # Null /\ previous > 0)
                /\ Len(e.trend) = 1 =>
                      e.trend[1].num * previous = (current - previous) * 100 * e.trend[1].den

\* the number, counted from January of year 0, of the calendar month of a day
CalendarMonthOf(d) ==
    CHOOSE n \in 24276 .. 24300 :
        /\ NewDate(n \div 12, n % 12, 1) <= d
        /\ d < NewDate((n + 1) \div 12, (n + 1) % 12, 1)

\* C26: getMonthlyExpenseBreakdown(categoryId, months) returns one entry per
\* calendar month for the last `months` months, the earliest first, and the
\* amount of an entry is the sum of |amount| of the category's transactions
\* dated in that calendar month.
C26_AmountOfEachMonth ==
    (call.fn = "getMonthlyExpenseBreakdown" /\ call.pc = "done") =>
        /\ Len(call.ret) = call.months
        /\ \A k \in 1..Len(call.ret) :
              LET n == CalendarMonthOf(call.now) - (call.months - k)
              IN  /\ call.ret[k].month = [month |-> n % 12, year |-> (n \div 12) % 100]
                  /\ call.ret[k].amount =
                        SumOver({id \in FiledUnder(call.categoryId) :
                                    CalendarMonthOf(RowOf(id).date) = n},
                                AbsAmountOfRow)

-----------------------------------------------------------------------------
(* Properties of scripts/migrate.mjs (under SpecMigrate)                    *)

\* the script started on a database without __drizzle_migrations and users
FreshDatabase ==
    /\ script.pc # "none"
    /\ "__drizzle_migrations" \notin script.initialTables
    /\ "users" \notin script.initialTables

ScriptOver == script.pc \in {"ended", "failed"}

\* C27: on a fresh database the script makes no schema change of its own and
\* no insert into the migration tracking (wasInitialized stays false), and
\* when the script is over the migrator has been run.
C27_FreshDatabaseGoesToMigrate ==
    FreshDatabase =>
        /\ script.changes = {}
        /\ ~script.wasInitialized
        /\ ScriptOver => script.migrateCalled

\* the failure has an SQLite error as its underlying cause: the code
\* SQLITE_ERROR is on the error or on its cause
SqliteFailure(error) == error.code = "SQLITE_ERROR" \/ error.cause = "SQLITE_ERROR"

\* C28: the connection is never closed twice and is closed once when the
\* script is over; a failure whose underlying cause is an SQLite error is
\* logged as a warning and the script ends normally; any other failure is
\* rethrown, after the connection is closed.
C28_ClosedOnceAndSqliteErrorsSwallowed ==
    script.pc # "none" =>
        /\ script.closes <= 1
        /\ ScriptOver => script.closes = 1
        /\ (ScriptOver /\ SqliteFailure(script.error)) =>
              /\ script.pc = "ended"
              /\ \E i \in 1..Len(script.log) : script.log[i] = "warn"
        /\ (ScriptOver /\ script.error # NoError /\ ~SqliteFailure(script.error)) =>
              script.pc = "failed"
        /\ (ScriptOver /\ script.error = NoError) => script.pc = "ended"

====
